---- MODULE Spec2Model ----
(***************************************************************************)
(* The programs of the repository, as state machines.                      *)
(*                                                                         *)
(*   mcp-servers/multimodel/src/index.ts   query_openai, query_gemini,     *)
(*                                         embed_voyage, parallel_query    *)
(*   mcp-servers/serverless/src/index.ts   discover, invoke                *)
(*   unnamed/part_009                      claude-cleanse (bash)           *)
(*                                                                         *)
(* Spec is the life of one MCP server process that takes up a request     *)
(* when the last one is answered, PipelineSpec the multimodel server with  *)
(* two calls in flight, CleanseSpec one run of claude-cleanse; the         *)
(* variables of the program that is not running keep their initial values. *)
(*                                                                         *)
(* A behaviour is the life of ONE server process: `server` says which of   *)
(* the two programs it runs.  The process serves list-tools and call-tool  *)
(* requests; a call-tool request runs synchronously up to its first await  *)
(* (one action), and continues when the awaited upstream call settles      *)
(* (one action per continuation).  The environment may change process.env  *)
(* and the functions directory between any two steps.                      *)
(*                                                                         *)
(* Strings built by template literals are sequences of fragments:          *)
(* `Unknown tool: ${name}` is <<"Unknown tool: ", name>>.  A JSON text is  *)
(* [json |-> object], the object holding exactly the properties that       *)
(* JSON.stringify keeps (a property whose value is undefined is dropped).  *)
(***************************************************************************)
EXTENDS Integers, Sequences, FiniteSets, TLC

VARIABLES
    server,         \* which program this process runs
    env,            \* process.env, restricted to the variables the program reads
    openaiClient,   \* multimodel index.ts:61
    geminiClient,   \* multimodel index.ts:62
    dir,            \* <projectRoot>/supabase/functions as the file system holds it
    call,           \* the call-tool request being handled, or the last one handled
    listed,         \* the reply to the last list-tools request
    parked,         \* the other call in flight, its handler suspended at an await
    argv,           \* claude-cleanse: the command line ("$@")
    opt,            \* claude-cleanse: DRY_RUN, AGGRESSIVE, ... (part_009:9-17)
    cat_files,      \* claude-cleanse: files counted per category (part_009:33)
    fs,             \* claude-cleanse: the tree under CLAUDE_DIR
    jq,             \* claude-cleanse: `command -v jq` succeeds
    phase           \* claude-cleanse: where the script is

serverVars == <<server, env, openaiClient, geminiClient, dir, call, listed, parked>>
cleanseVars == <<argv, opt, cat_files, fs, jq, phase>>
vars == <<server, env, openaiClient, geminiClient, dir, call, listed, parked,
          argv, opt, cat_files, fs, jq, phase>>

\* ---------------------------------------------------------------------------
\* Bounds and input sets
\* ---------------------------------------------------------------------------

\* Longest directory listing of supabase/functions that is enumerated.
MaxEntries == 2

Servers == {"multimodel", "serverless"}

\* process.env[var] when the variable is not there (undefined).
Unset == "<unset>"

MultimodelEnv == {"OPENAI_API_KEY", "GEMINI_API_KEY", "VOYAGE_API_KEY"}
ServerlessEnv == {"SUPABASE_URL", "EXPO_PUBLIC_SUPABASE_URL", "SUPABASE_SERVICE_ROLE_KEY",
                  "SUPABASE_ANON_KEY", "EXPO_PUBLIC_SUPABASE_ANON_KEY"}

EnvOf(s) == IF s = "multimodel" THEN MultimodelEnv ELSE ServerlessEnv

\* JavaScript truthiness of a process.env value (`!key`, `a || b`).
Truthy(v) == v # Unset /\ v # ""

\* a || b on process.env values
OrElse(a, b) == IF Truthy(a) THEN a ELSE b

\* ---------------------------------------------------------------------------
\* Model configuration                                  multimodel index.ts:23
\* ---------------------------------------------------------------------------

MODELS == [
    openai |-> [default      |-> "gpt-5.2-pro-2025-12-11",
                available    |-> <<"gpt-5.2-pro-2025-12-11", "gpt-5.2-2025-12-11">>,
                responsesApi |-> <<"gpt-5.2-pro-2025-12-11">>],
    gemini |-> [default      |-> "gemini-3-pro-preview",
                available    |-> <<"gemini-3-pro-preview", "gemini-3-flash-preview">>],
    voyage |-> [default      |-> "voyage-3"] ]

\* Array.prototype.includes
Includes(seq, x) == \E i \in 1..Len(seq) : seq[i] = x

ENV_NAMES == [openai |-> "OPENAI_API_KEY", google |-> "GEMINI_API_KEY", voyage |-> "VOYAGE_API_KEY"]

\* ---------------------------------------------------------------------------
\* JSON.stringify and the reply envelope
\* ---------------------------------------------------------------------------

\* A property of an object literal: key, whether its value is defined, the value.
Prop(k, v) == [k |-> k, def |-> TRUE, v |-> v]
\* A property whose value is read from an optional field of a record.
OptProp(k, rec, f) == IF f \in DOMAIN rec THEN [k |-> k, def |-> TRUE, v |-> rec[f]]
                                          ELSE [k |-> k, def |-> FALSE, v |-> "undefined"]

\* An object literal as JSON.stringify sees it: the properties whose value is defined.
\* JSON.stringify(object, null, 2) is the text of that object.
ObjectOf(props) ==
    LET keep == {i \in 1..Len(props) : props[i].def}
    IN  [key \in {props[i].k : i \in keep} |-> props[CHOOSE i \in keep : props[i].k = key].v]

JSONstringify(props) == [json |-> ObjectOf(props)]

\* JSON.parse applies to texts JSON.stringify produced.
ParsesAsJSON(text) == DOMAIN text = {"json"}

\* return { content: [{ type: "text", text }] }          no isError property
SuccessEnvelope(text) == [content |-> << [type |-> "text", text |-> text] >>]

\* Variant of ErrorEnvelope that forgets the isError flag; C2 must tell it from the code.
ErrorEnvelopeNoFlag(message) ==
    [content |-> << [type |-> "text", text |-> JSONstringify(<<Prop("error", message)>>)] >>]

\* catch (error) { return { content: [...JSON {error: message}], isError: true } }
ErrorEnvelope(message) ==
    [content |-> << [type |-> "text", text |-> JSONstringify(<<Prop("error", message)>>)] >>,
     isError |-> TRUE]

\* How an MCP client reads the optional isError flag.
IsError(envelope) == "isError" \in DOMAIN envelope /\ envelope.isError

\* ---------------------------------------------------------------------------
\* Tool catalogs                multimodel index.ts:140, serverless index.ts:119
\* ---------------------------------------------------------------------------

MultimodelTools ==
    << [name |-> "query_openai",
        properties |-> {"prompt", "system_prompt", "model"}, required |-> {"prompt"},
        enum |-> MODELS.openai.available],
       [name |-> "query_gemini",
        properties |-> {"prompt", "system_prompt", "model"}, required |-> {"prompt"},
        enum |-> MODELS.gemini.available],
       [name |-> "embed_voyage",
        properties |-> {"text", "input_type"}, required |-> {"text"},
        enum |-> <<"document", "query">>],
       [name |-> "parallel_query",
        properties |-> {"prompt", "system_prompt", "openai_model", "gemini_model"},
        required |-> {"prompt"},
        enum |-> MODELS.openai.available \o MODELS.gemini.available] >>

ServerlessTools ==
    << [name |-> "discover", properties |-> {}, required |-> {}, enum |-> <<>>],
       [name |-> "invoke", properties |-> {"name", "payload", "endpoint"},
        required |-> {"name"}, enum |-> <<>>] >>

\* Variant of ListToolsResult that leaves out query_openai while OPENAI_API_KEY is not
\* set; C10 must tell it from the code.
ListConfiguredTools(s) ==
    [tools |-> IF s = "serverless" THEN ServerlessTools
               ELSE IF env["OPENAI_API_KEY"] \in {"<unset>", ""} THEN Tail(MultimodelTools)
               ELSE MultimodelTools]

\* The tools array the list-tools handler of a server returns.
ListToolsResult(s) == [tools |-> IF s = "multimodel" THEN MultimodelTools ELSE ServerlessTools]

\* The case labels of the call-tool switch of a server.
CaseLabels(s) == IF s = "multimodel"
                 THEN {"query_openai", "query_gemini", "embed_voyage", "parallel_query"}
                 ELSE {"discover", "invoke"}

\* Tool names a client may send: both catalogs and a name neither server has.
ToolNames == {"query_openai", "query_gemini", "embed_voyage", "parallel_query",
              "discover", "invoke", "delete_everything"}

\* ---------------------------------------------------------------------------
\* Credential resolution and lazy clients              multimodel index.ts:49-74
\* ---------------------------------------------------------------------------

Null == [null |-> TRUE]

\* Variant of getApiKey that tests `key === undefined` and so accepts an empty
\* variable; C5 must tell it from the code.
getApiKeyUndefinedOnly(provider) ==
    LET key == env[ENV_NAMES[provider]]
    IN  IF key = Unset
        THEN [ok |-> FALSE, message |-> <<ENV_NAMES[provider], " not set">>]
        ELSE [ok |-> TRUE, key |-> key]

\* getApiKey(provider): the key, or the Error it throws.
getApiKey(provider) ==
    LET key == env[ENV_NAMES[provider]]
    IN  IF ~Truthy(key)
        THEN [ok |-> FALSE, message |-> <<ENV_NAMES[provider], " not set">>]
        ELSE [ok |-> TRUE, key |-> key]

\* Variant of getOpenAI that assigns the client before it tests the key, so that a
\* failed resolution leaves a client without a key behind; C27 must tell it from the
\* code.
getOpenAIAssignsFirst ==
    IF openaiClient # Null
    THEN [ok |-> TRUE, client |-> openaiClient, memo |-> openaiClient]
    ELSE LET k == getApiKey("openai")
         IN  IF k.ok THEN [ok |-> TRUE, client |-> [apiKey |-> k.key], memo |-> [apiKey |-> k.key]]
                     ELSE [ok |-> FALSE, message |-> k.message,
                           memo |-> [apiKey |-> env["OPENAI_API_KEY"]]]

\* getOpenAI(): the client it returns and the value openaiClient has afterwards,
\* or the Error getApiKey throws (openaiClient is then left as it was).
getOpenAI ==
    IF openaiClient # Null
    THEN [ok |-> TRUE, client |-> openaiClient, memo |-> openaiClient]
    ELSE LET k == getApiKey("openai")
         IN  IF k.ok THEN [ok |-> TRUE, client |-> [apiKey |-> k.key], memo |-> [apiKey |-> k.key]]
                     ELSE [ok |-> FALSE, message |-> k.message, memo |-> openaiClient]

\* Variant of getGemini that resolves the key on every call and drops the client
\* when the resolution fails; C22 must tell it from the code.
getGeminiResolvesFirst ==
    LET k == getApiKey("google")
    IN  IF k.ok THEN [ok |-> TRUE, client |-> [apiKey |-> k.key], memo |-> [apiKey |-> k.key]]
                ELSE [ok |-> FALSE, message |-> k.message, memo |-> Null]

getGemini ==
    IF geminiClient # Null
    THEN [ok |-> TRUE, client |-> geminiClient, memo |-> geminiClient]
    ELSE LET k == getApiKey("google")
         IN  IF k.ok THEN [ok |-> TRUE, client |-> [apiKey |-> k.key], memo |-> [apiKey |-> k.key]]
                     ELSE [ok |-> FALSE, message |-> k.message, memo |-> geminiClient]

\* ---------------------------------------------------------------------------
\* Arguments of a call-tool request
\* ---------------------------------------------------------------------------

\* request.params.arguments is optional in the protocol: the handler sees undefined.
UndefinedArgs == [undefined |-> TRUE]
HasArgs(args) == "undefined" \notin DOMAIN args

\* const { k = d } = args
Default(args, k, d) == IF k \in DOMAIN args THEN args[k] ELSE d
Has(args, k) == k \in DOMAIN args

Prompts == {"2+2?"}
SystemPrompts == {"Be brief."}
OpenAIModelInputs == {"gpt-5.2-pro-2025-12-11", "gpt-5.2-2025-12-11", "gpt-4o"}
GeminiModelInputs == {"gemini-3-pro-preview", "gemini-3-flash-preview", "gemini-1.5-pro"}
InputTypes == {"document", "query"}

QueryArgs(models) ==
    [prompt : Prompts] \cup [prompt : Prompts, system_prompt : SystemPrompts]
    \cup [prompt : Prompts, model : models]
    \cup [prompt : Prompts, system_prompt : SystemPrompts, model : models]

EmbedArgs == [text : Prompts] \cup [text : Prompts, input_type : InputTypes]

ParallelArgs ==
    [prompt : Prompts] \cup [prompt : Prompts, system_prompt : SystemPrompts]
    \cup [prompt : Prompts, openai_model : OpenAIModelInputs]
    \cup [prompt : Prompts, gemini_model : GeminiModelInputs]
    \cup [prompt : Prompts, system_prompt : SystemPrompts,
          openai_model : OpenAIModelInputs, gemini_model : GeminiModelInputs]

\* What destructuring undefined throws (a TypeError), for the first property read.
DestructureError(k) == <<"Cannot destructure property '", k, "' of 'args' as it is undefined.">>

\* ---------------------------------------------------------------------------
\* What an awaited upstream call can settle to
\* ---------------------------------------------------------------------------

Return(v) == [ok |-> TRUE, value |-> v]
Throw(m)  == [ok |-> FALSE, message |-> m]

EmptyObject == [k \in {} |-> ""]

\* fetch(): the promise rejects (no HTTP reply), or resolves to a Response of any status
\* whose body is JSON or is not.
FetchFailed == [failed |-> TRUE, message |-> <<"fetch failed">>]
Response(status, body) == [failed |-> FALSE, status |-> status, json |-> TRUE, body |-> body]
NonJsonResponse(status) ==
    [failed |-> FALSE, status |-> status, json |-> FALSE, body |-> [raw |-> "<html>Bad Gateway</html>"]]

\* Response.ok
ResponseOk(reply) == reply.status \in 200..299

\* What response.json() throws on a body that is not JSON (a SyntaxError).
SyntaxErrorMessage == <<"Unexpected token '<', \"<html>Bad\"... is not valid JSON">>

\* Replies of POST https://api.openai.com/v1/responses to a request for `model`: the
\* reply reports the model that answered, under the id requested or under another id.
ResponsesReplies(model) ==
    { FetchFailed,
      Response(200, [output |-> << [type |-> "message",
                                    content |-> << [type |-> "output_text", text |-> <<"4">>] >>] >>,
                     model |-> "gpt-5.2-pro"]),
      Response(200, [output |-> << [type |-> "reasoning"],
                                   [type |-> "message",
                                    content |-> << [type |-> "output_text", text |-> <<"4">>],
                                                   [type |-> "refusal", text |-> <<"no">>],
                                                   [type |-> "output_text", text |-> <<".">>] >>] >>,
                     model |-> model,
                     usage |-> [total_tokens |-> 12]]),
      Response(200, EmptyObject),
      NonJsonResponse(200),
      Response(401, [error |-> [message |-> <<"Incorrect API key provided">>]]),
      Response(500, [error |-> [type |-> "server_error"]]),
      NonJsonResponse(502) }

\* Settlements of openai.chat.completions.create(): the SDK resolves to the parsed
\* completion or rejects with an APIError.
ChatReplies(model) ==
    { Return([choices |-> << [message |-> [content |-> <<"4">>]] >>,
              model |-> model, usage |-> [total_tokens |-> 9]]),
      Return([choices |-> << [message |-> [content |-> <<"4">>]] >>,
              model |-> "gpt-5.2", usage |-> [total_tokens |-> 9]]),
      Return([choices |-> <<>>, model |-> model]),
      Throw(<<"401 Incorrect API key provided">>),
      Throw(<<"404 The model does not exist">>),
      Throw(<<"Connection error.">>) }

\* Settlements of ai.models.generateContent().
GeminiReplies ==
    { Return([text |-> <<"4">>, usageMetadata |-> [totalTokenCount |-> 7]]),
      Return(EmptyObject),
      Throw(<<"API key not valid. Please pass a valid API key.">>),
      Throw(<<"fetch failed">>) }

\* Replies of POST https://api.voyageai.com/v1/embeddings.
VoyageReplies ==
    { FetchFailed,
      Response(200, [data |-> << [embedding |-> <<1, 2, 3>>] >>, usage |-> [total_tokens |-> 3]]),
      Response(401, [detail |-> <<"Provided API key is invalid.">>]),
      Response(429, EmptyObject),
      NonJsonResponse(502) }

\* The upstream request failed: fetch() rejected or the status is not a success one;
\* the SDK call rejected.
UpstreamFailed(reply) ==
    IF "failed" \in DOMAIN reply THEN reply.failed \/ ~ResponseOk(reply) ELSE ~reply.ok

\* ---------------------------------------------------------------------------
\* queryOpenAIResponses                                multimodel index.ts:76-122
\* ---------------------------------------------------------------------------

RECURSIVE Join(_)
\* Array.prototype.join("") of a list of strings
Join(parts) == IF parts = <<>> THEN <<>> ELSE Head(parts) \o Join(Tail(parts))

IsMessage(item) == item.type = "message"
IsOutputText(c) == c.type = "output_text"
TextOf(c) == c.text

RECURSIVE Map(_, _)
\* Array.prototype.map for the two callbacks of the output extraction
Map(items, f) ==
    IF items = <<>> THEN <<>>
    ELSE << IF f = "text" THEN TextOf(Head(items))
            ELSE IF "content" \in DOMAIN Head(items)
                 THEN Join(Map(SelectSeq(Head(items).content, IsOutputText), "text"))
                 ELSE <<>> >> \o Map(Tail(items), f)

\* data.output?.filter(message)?.map(item => item.content?.filter(output_text)?.map(text).join("")).join("") || ""
OutputText(data) ==
    IF "output" \in DOMAIN data THEN Join(Map(SelectSeq(data.output, IsMessage), "item")) ELSE <<>>

\* The input of the Responses API request (index.ts:83-88).
ResponsesInput(args) ==
    IF Has(args, "system_prompt")
    THEN [messages |-> << [role |-> "system", content |-> args.system_prompt],
                          [role |-> "user", content |-> args.prompt] >>]
    ELSE [text |-> args.prompt]

\* The fetch of index.ts:90-101.
ResponsesRequest(args, model, apiKey) ==
    [provider |-> "openai", api |-> "responses",
     url |-> "https://api.openai.com/v1/responses",
     authorization |-> <<"Bearer ", apiKey>>,
     body |-> [model |-> model, input |-> ResponsesInput(args), reasoning |-> [effort |-> "high"]]]

\* Variant of ResponsesResult whose fallback message quotes the key that was sent; C17
\* must tell it from the code.
ResponsesResultQuotesKey(reply, model) ==
    IF reply.failed THEN Throw(reply.message)
    ELSE IF ~reply.json THEN Throw(SyntaxErrorMessage)
    ELSE IF ~ResponseOk(reply)
    THEN Throw(IF "error" \in DOMAIN reply.body /\ "message" \in DOMAIN reply.body.error
               THEN reply.body.error.message
               ELSE <<"Responses API error: ", ToString(reply.status), " with key ",
                      env["OPENAI_API_KEY"]>>)
    ELSE Return(<< Prop("content", OutputText(reply.body)),
                   Prop("model", IF Has(reply.body, "model") THEN reply.body.model ELSE model),
                   OptProp("usage", reply.body, "usage") >>)

\* index.ts:103-121: what queryOpenAIResponses resolves to or rejects with, given the reply.
ResponsesResult(reply, model) ==
    IF reply.failed THEN Throw(reply.message)
    ELSE IF ~reply.json THEN Throw(SyntaxErrorMessage)
    ELSE IF ~ResponseOk(reply)
    THEN Throw(IF "error" \in DOMAIN reply.body /\ "message" \in DOMAIN reply.body.error
               THEN reply.body.error.message
               ELSE <<"Responses API error: ", ToString(reply.status)>>)
    ELSE Return(<< Prop("content", OutputText(reply.body)),
                   Prop("model", IF Has(reply.body, "model") THEN reply.body.model ELSE model),
                   OptProp("usage", reply.body, "usage") >>)

\* ---------------------------------------------------------------------------
\* The call-tool request being handled
\* ---------------------------------------------------------------------------

NoBranch == [status |-> "none"]
NoEnvelope == [none |-> TRUE]
NoReply == [none |-> TRUE]
NoError == [none |-> TRUE]

\* No request is being handled.
Idle == [pc |-> "idle", name |-> "", args |-> UndefinedArgs, awaiting |-> "none",
         requests |-> <<>>, replies |-> EmptyObject, oa |-> NoBranch, gm |-> NoBranch,
         thrown |-> NoError, envelope |-> NoEnvelope]

\* A handler that stopped at an await: `awaiting` is the upstream call it waits for,
\* `requests` the upstream requests it has issued, `replies` what each provider
\* answered, oa and gm the two promises of parallel_query, `thrown` the Error the try
\* block threw.
Pending(name, args, awaiting, requests, oa, gm) ==
    [pc |-> "pending", name |-> name, args |-> args, awaiting |-> awaiting,
     requests |-> requests, replies |-> EmptyObject, oa |-> oa, gm |-> gm,
     thrown |-> NoError, envelope |-> NoEnvelope]

\* The provider's answer arrives.
Received(c, provider, reply) == [c EXCEPT !.replies = (provider :> reply) @@ c.replies]

\* The handler returned `text` from the try block (index.ts:233, 252, 280, 314, 371).
Returned(c, text) ==
    [c EXCEPT !.pc = "done", !.awaiting = "none", !.envelope = SuccessEnvelope(text)]

\* Variant of Caught in which the Error is thrown outside the try block and the
\* handler's promise rejects; C4 must tell it from the code.
Escaped(c, message) ==
    [c EXCEPT !.pc = "rejected", !.awaiting = "none", !.thrown = [message |-> message]]

\* The try block threw an Error with `message`: the catch of index.ts:389-397.
Caught(c, message) ==
    [c EXCEPT !.pc = "done", !.awaiting = "none", !.thrown = [message |-> message],
              !.envelope = ErrorEnvelope(message)]

\* The process handles one request at a time: the next one is taken up when the
\* reply to the last one has been written.
Ready == call.pc = "idle" /\ listed = NoReply

\* A call that has not issued anything yet.
Entered(name, args) == Pending(name, args, "none", <<>>, NoBranch, NoBranch)

\* The outcome of a handler body that resolves to a value or rejects.
Settle(c, result) ==
    IF result.ok THEN Returned(c, JSONstringify(result.value)) ELSE Caught(c, result.message)

\* ---------------------------------------------------------------------------
\* query_openai                                       multimodel index.ts:224-262
\* ---------------------------------------------------------------------------

\* messages of a chat completion (index.ts:242-244, 341-343)
ChatMessages(args) ==
    IF Has(args, "system_prompt")
    THEN << [role |-> "system", content |-> args.system_prompt],
            [role |-> "user", content |-> args.prompt] >>
    ELSE << [role |-> "user", content |-> args.prompt] >>

\* openai.chat.completions.create of query_openai (index.ts:246-250)
ChatRequest(client, args, model) ==
    [provider |-> "openai", api |-> "chat", authorization |-> <<"Bearer ", client.apiKey>>,
     body |-> [model |-> model, messages |-> ChatMessages(args), reasoning_effort |-> "high"]]

\* response.choices[0]?.message?.content
FirstChoice(response) ==
    IF Len(response.choices) > 0 /\ "message" \in DOMAIN response.choices[1]
    THEN response.choices[1].message ELSE EmptyObject

\* Variant of ChatResult that throws when the completion has no choice; C3 must tell
\* it from the code.
ChatResultStrict(reply) ==
    IF ~reply.ok THEN reply
    ELSE IF Len(reply.value.choices) = 0 THEN Throw(<<"No completion returned">>)
    ELSE Return(<< OptProp("content", FirstChoice(reply.value), "content"),
                   OptProp("model", reply.value, "model"),
                   OptProp("usage", reply.value, "usage") >>)

\* index.ts:252-261
ChatResult(reply) ==
    IF ~reply.ok THEN reply
    ELSE Return(<< OptProp("content", FirstChoice(reply.value), "content"),
                   OptProp("model", reply.value, "model"),
                   OptProp("usage", reply.value, "usage") >>)

\* Variant of OpenAIModel whose default is the other available model; C15 must tell
\* it from the code.
OpenAIModelCheapest(args) == Default(args, "model", MODELS.openai.available[2])

\* The model the call uses: const { model = MODELS.openai.default } = args
OpenAIModel(args) == Default(args, "model", MODELS.openai.default)

\* Variant of UsesResponsesApi that sends every model of the available list to the
\* Responses API; C23 must tell it from the code.
UsesResponsesApiWhenAvailable(model) == Includes(MODELS.openai.available, model)

\* The branch of index.ts:231.
UsesResponsesApi(model) == Includes(MODELS.openai.responsesApi, model)

\* The synchronous part of the query_openai case, up to its first await.
QueryOpenAI(args) ==
    /\ server = "multimodel" /\ Ready
    /\ LET c == Entered("query_openai", args)
       IN  IF ~HasArgs(args)
           THEN /\ call' = Caught(c, DestructureError("prompt"))
                /\ UNCHANGED openaiClient
           ELSE IF UsesResponsesApi(OpenAIModel(args))
           THEN LET k == getApiKey("openai")
                IN  /\ call' = IF k.ok
                               THEN [c EXCEPT !.awaiting = "responses",
                                       !.requests = <<ResponsesRequest(args, OpenAIModel(args), k.key)>>]
                               ELSE Caught(c, k.message)
                    /\ UNCHANGED openaiClient
           ELSE LET o == getOpenAI
                IN  /\ call' = IF o.ok
                               THEN [c EXCEPT !.awaiting = "chat",
                                       !.requests = <<ChatRequest(o.client, args, OpenAIModel(args))>>]
                               ELSE Caught(c, o.message)
                    /\ openaiClient' = o.memo
    /\ UNCHANGED <<server, env, geminiClient, dir, listed, parked, cleanseVars>>

\* Variant of QueryOpenAIResponsesSettles that sends the request again when the
\* upstream call failed; C9 must tell it from the code.
QueryOpenAIResponsesRetries(reply) ==
    /\ call.pc = "pending" /\ call.name = "query_openai" /\ call.awaiting = "responses"
    /\ call' = IF UpstreamFailed(reply) /\ Len(call.requests) < 2
               THEN [call EXCEPT !.requests = Append(@, call.requests[1])]
               ELSE Settle(Received(call, "openai", reply),
                           ResponsesResult(reply, OpenAIModel(call.args)))
    /\ UNCHANGED <<server, env, openaiClient, geminiClient, dir, listed, parked, cleanseVars>>

\* The fetch of queryOpenAIResponses settles; query_openai returns or throws.
QueryOpenAIResponsesSettles(reply) ==
    /\ call.pc = "pending" /\ call.name = "query_openai" /\ call.awaiting = "responses"
    /\ call' = Settle(Received(call, "openai", reply),
                       ResponsesResult(reply, OpenAIModel(call.args)))
    /\ UNCHANGED <<server, env, openaiClient, geminiClient, dir, listed, parked, cleanseVars>>

\* openai.chat.completions.create settles; query_openai returns or throws.
QueryOpenAIChatSettles(reply) ==
    /\ call.pc = "pending" /\ call.name = "query_openai" /\ call.awaiting = "chat"
    /\ call' = Settle(Received(call, "openai", reply), ChatResult(reply))
    /\ UNCHANGED <<server, env, openaiClient, geminiClient, dir, listed, parked, cleanseVars>>

\* ---------------------------------------------------------------------------
\* query_gemini                                       multimodel index.ts:264-290
\* ---------------------------------------------------------------------------

\* Variant of GeminiModel that replaces a model outside the available list by the
\* default; C16 must tell it from the code.
GeminiModelAllowListed(args) ==
    IF Has(args, "model") /\ Includes(MODELS.gemini.available, args.model) THEN args.model
    ELSE MODELS.gemini.default

\* const { model = MODELS.gemini.default } = args
GeminiModel(args) == Default(args, "model", MODELS.gemini.default)

\* config: { ...(system_prompt && { systemInstruction: system_prompt }) }
GeminiConfig(args) ==
    IF Has(args, "system_prompt") THEN [systemInstruction |-> args.system_prompt] ELSE EmptyObject

\* ai.models.generateContent (index.ts:272-278, 356-362)
GeminiRequest(client, args, model) ==
    [provider |-> "gemini", api |-> "generateContent", authorization |-> <<client.apiKey>>,
     body |-> [model |-> model, contents |-> args.prompt, config |-> GeminiConfig(args)]]

\* index.ts:280-289 (and 363-367): the model echoed is the one requested.
GeminiResult(reply, model) ==
    IF ~reply.ok THEN reply
    ELSE Return(<< OptProp("content", reply.value, "text"),
                   Prop("model", model),
                   OptProp("usage", reply.value, "usageMetadata") >>)

QueryGemini(args) ==
    /\ server = "multimodel" /\ Ready
    /\ LET c == Entered("query_gemini", args)
       IN  IF ~HasArgs(args)
           THEN /\ call' = Caught(c, DestructureError("prompt"))
                /\ UNCHANGED geminiClient
           ELSE LET g == getGemini
                IN  /\ call' = IF g.ok
                               THEN [c EXCEPT !.awaiting = "gemini",
                                       !.requests = <<GeminiRequest(g.client, args, GeminiModel(args))>>]
                               ELSE Caught(c, g.message)
                    /\ geminiClient' = g.memo
    /\ UNCHANGED <<server, env, openaiClient, dir, listed, parked, cleanseVars>>

\* Variant of QueryGeminiSettles in which the model is kept in a variable of the
\* module that every query_gemini call overwrites, so that the continuation reads the
\* model of the other call in flight; C24 must tell it from the code.
QueryGeminiSettlesSharedModel(reply) ==
    /\ call.pc = "pending" /\ call.name = "query_gemini" /\ call.awaiting = "gemini"
    /\ call' = Settle(Received(call, "gemini", reply),
                       GeminiResult(reply, IF parked.pc = "pending" /\ parked.name = "query_gemini"
                                           THEN GeminiModel(parked.args)
                                           ELSE GeminiModel(call.args)))
    /\ UNCHANGED <<server, env, openaiClient, geminiClient, dir, listed, parked, cleanseVars>>

QueryGeminiSettles(reply) ==
    /\ call.pc = "pending" /\ call.name = "query_gemini" /\ call.awaiting = "gemini"
    /\ call' = Settle(Received(call, "gemini", reply),
                       GeminiResult(reply, GeminiModel(call.args)))
    /\ UNCHANGED <<server, env, openaiClient, geminiClient, dir, listed, parked, cleanseVars>>

\* ---------------------------------------------------------------------------
\* embed_voyage                                       multimodel index.ts:292-324
\* ---------------------------------------------------------------------------

VoyageRequest(args, apiKey) ==
    [provider |-> "voyage", api |-> "embeddings",
     url |-> "https://api.voyageai.com/v1/embeddings",
     authorization |-> <<"Bearer ", apiKey>>,
     body |-> [model |-> MODELS.voyage.default, input |-> <<args.text>>,
               input_type |-> Default(args, "input_type", "document")]]

\* data.data?.[0]
FirstDatum(data) ==
    IF "data" \in DOMAIN data /\ Len(data.data) > 0 THEN data.data[1] ELSE EmptyObject

\* index.ts:312-323: the reply's status is not looked at.
VoyageResult(reply) ==
    IF reply.failed THEN Throw(reply.message)
    ELSE IF ~reply.json THEN Throw(SyntaxErrorMessage)
    ELSE LET first == FirstDatum(reply.body)
         IN  Return(<< OptProp("embedding", first, "embedding"),
                       IF "embedding" \in DOMAIN first
                       THEN Prop("dimensions", Len(first.embedding))
                       ELSE OptProp("dimensions", first, "embedding"),
                       OptProp("usage", reply.body, "usage") >>)

EmbedVoyage(args) ==
    /\ server = "multimodel" /\ Ready
    /\ LET c == Entered("embed_voyage", args)
           k == getApiKey("voyage")
       IN  call' = IF ~HasArgs(args) THEN Caught(c, DestructureError("text"))
                   ELSE IF k.ok
                   THEN [c EXCEPT !.awaiting = "voyage", !.requests = <<VoyageRequest(args, k.key)>>]
                   ELSE Caught(c, k.message)
    /\ UNCHANGED <<server, env, openaiClient, geminiClient, dir, listed, parked, cleanseVars>>

EmbedVoyageSettles(reply) ==
    /\ call.pc = "pending" /\ call.name = "embed_voyage" /\ call.awaiting = "voyage"
    /\ call' = Settle(Received(call, "voyage", reply), VoyageResult(reply))
    /\ UNCHANGED <<server, env, openaiClient, geminiClient, dir, listed, parked, cleanseVars>>

\* ---------------------------------------------------------------------------
\* parallel_query                                     multimodel index.ts:326-384
\* ---------------------------------------------------------------------------

\* The states of a promise handed to Promise.allSettled.
PendingBranch(api) == [status |-> "pending", api |-> api]
Fulfilled(value) == [status |-> "fulfilled", value |-> value]
Rejected(message) == [status |-> "rejected", reason |-> [message |-> message]]
SettleBranch(result) == IF result.ok THEN Fulfilled(result.value) ELSE Rejected(result.message)

ParallelOpenAIModel(args) == Default(args, "openai_model", MODELS.openai.default)
ParallelGeminiModel(args) == Default(args, "gemini_model", MODELS.gemini.default)

\* openai.chat.completions.create of parallel_query (index.ts:344-347)
ParallelChatRequest(client, args, model) ==
    [provider |-> "openai", api |-> "chat", authorization |-> <<"Bearer ", client.apiKey>>,
     body |-> [model |-> model, messages |-> ChatMessages(args)]]

\* index.ts:348-352: the model echoed is the one requested.
ParallelChatResult(reply, model) ==
    IF ~reply.ok THEN reply
    ELSE Return(<< Prop("model", model),
                   OptProp("content", FirstChoice(reply.value), "content"),
                   OptProp("usage", reply.value, "usage") >>)

\* The first async function of index.ts:335-353, run up to its first await: the promise
\* it leaves, the request it issued, and openaiClient afterwards.
ParallelOpenAIBranch(args) ==
    IF UsesResponsesApi(ParallelOpenAIModel(args))
    THEN LET k == getApiKey("openai")
         IN  IF k.ok
             THEN [branch |-> PendingBranch("responses"), memo |-> openaiClient,
                   requests |-> <<ResponsesRequest(args, ParallelOpenAIModel(args), k.key)>>]
             ELSE [branch |-> Rejected(k.message), memo |-> openaiClient, requests |-> <<>>]
    ELSE LET o == getOpenAI
         IN  IF o.ok
             THEN [branch |-> PendingBranch("chat"), memo |-> o.memo,
                   requests |-> <<ParallelChatRequest(o.client, args, ParallelOpenAIModel(args))>>]
             ELSE [branch |-> Rejected(o.message), memo |-> o.memo, requests |-> <<>>]

\* The second async function of index.ts:354-368, run up to its first await.
ParallelGeminiBranch(args) ==
    LET g == getGemini
    IN  IF g.ok
        THEN [branch |-> PendingBranch("gemini"), memo |-> g.memo,
              requests |-> <<GeminiRequest(g.client, args, ParallelGeminiModel(args))>>]
        ELSE [branch |-> Rejected(g.message), memo |-> g.memo, requests |-> <<>>]

\* Both async functions are called, in order, while the array literal is evaluated;
\* the handler then awaits Promise.allSettled.
ParallelQuery(args) ==
    /\ server = "multimodel" /\ Ready
    /\ IF ~HasArgs(args)
       THEN /\ call' = Caught(Entered("parallel_query", args), DestructureError("prompt"))
            /\ UNCHANGED <<openaiClient, geminiClient>>
       ELSE LET o == ParallelOpenAIBranch(args)
                g == ParallelGeminiBranch(args)
            IN  /\ call' = Pending("parallel_query", args, "allSettled",
                                   o.requests \o g.requests, o.branch, g.branch)
                /\ openaiClient' = o.memo
                /\ geminiClient' = g.memo
    /\ UNCHANGED <<server, env, dir, listed, parked, cleanseVars>>

ParallelOpenAIResponsesSettles(reply) ==
    /\ call.pc = "pending" /\ call.name = "parallel_query"
    /\ call.oa = PendingBranch("responses")
    /\ call' = [Received(call, "openai", reply) EXCEPT
                    !.oa = SettleBranch(ResponsesResult(reply, ParallelOpenAIModel(call.args)))]
    /\ UNCHANGED <<server, env, openaiClient, geminiClient, dir, listed, parked, cleanseVars>>

ParallelOpenAIChatSettles(reply) ==
    /\ call.pc = "pending" /\ call.name = "parallel_query"
    /\ call.oa = PendingBranch("chat")
    /\ call' = [Received(call, "openai", reply) EXCEPT
                    !.oa = SettleBranch(ParallelChatResult(reply, ParallelOpenAIModel(call.args)))]
    /\ UNCHANGED <<server, env, openaiClient, geminiClient, dir, listed, parked, cleanseVars>>

ParallelGeminiSettles(reply) ==
    /\ call.pc = "pending" /\ call.name = "parallel_query"
    /\ call.gm = PendingBranch("gemini")
    /\ call' = [Received(call, "gemini", reply) EXCEPT
                    !.gm = SettleBranch(GeminiResult(reply, ParallelGeminiModel(call.args)))]
    /\ UNCHANGED <<server, env, openaiClient, geminiClient, dir, listed, parked, cleanseVars>>

\* Variant of AllSettled that resolves with the first promise to settle; C7 must tell
\* it from the code.
FirstSettled(oa, gm) == oa.status # "pending" \/ gm.status # "pending"

\* Promise.allSettled resolves when every promise has settled.
AllSettled(oa, gm) == oa.status # "pending" /\ gm.status # "pending"

\* r.status === "fulfilled" ? r.value : { error: r.reason?.message }   (index.ts:375-380)
SettledField(b) ==
    IF b.status = "fulfilled" THEN ObjectOf(b.value)
    ELSE ObjectOf(<< OptProp("error", IF "reason" \in DOMAIN b THEN b.reason ELSE EmptyObject,
                             "message") >>)

\* Variant of ParallelJoin with Promise.all in place of Promise.allSettled: the first
\* rejection rejects the await and reaches the catch; C6 must tell it from the code.
ParallelJoinAll ==
    /\ call.pc = "pending" /\ call.name = "parallel_query" /\ call.awaiting = "allSettled"
    /\ \/ call.oa.status = "rejected" \/ call.gm.status = "rejected"
       \/ AllSettled(call.oa, call.gm)
    /\ call' = IF call.oa.status = "rejected" THEN Caught(call, call.oa.reason.message)
               ELSE IF call.gm.status = "rejected" THEN Caught(call, call.gm.reason.message)
               ELSE Returned(call, JSONstringify(<< Prop("openai", SettledField(call.oa)),
                                                    Prop("gemini", SettledField(call.gm)) >>))
    /\ UNCHANGED <<server, env, openaiClient, geminiClient, dir, listed, parked, cleanseVars>>

\* The continuation after the await of index.ts:334: index.ts:371-383.
ParallelJoin ==
    /\ call.pc = "pending" /\ call.name = "parallel_query" /\ call.awaiting = "allSettled"
    /\ AllSettled(call.oa, call.gm)
    /\ call' = Returned(call, JSONstringify(<< Prop("openai", SettledField(call.oa)),
                                               Prop("gemini", SettledField(call.gm)) >>))
    /\ UNCHANGED <<server, env, openaiClient, geminiClient, dir, listed, parked, cleanseVars>>

\* ---------------------------------------------------------------------------
\* discover                               serverless index.ts:42-66, 161-173
\* ---------------------------------------------------------------------------

\* Directory entries: the name in fragments (a leading "_" is a fragment of its own)
\* and what stat() finds: a directory, a file, or nothing (a dangling link: stat throws).
DirEntries ==
    { [name |-> <<"hello">>, kind |-> "dir"],
      [name |-> <<"_", "shared">>, kind |-> "dir"],
      [name |-> <<"send", "_", "email">>, kind |-> "dir"],
      [name |-> <<"deno.json">>, kind |-> "file"],
      [name |-> <<"stale-link">>, kind |-> "broken"] }

NoDirectory == [exists |-> FALSE]
Directory(entries) == [exists |-> TRUE, entries |-> entries]

\* readdir() listings of at most MaxEntries entries, names distinct.
Listings ==
    UNION { { l \in [1..n -> DirEntries] : \A i, j \in 1..n : i # j => l[i] # l[j] }
            : n \in 0..MaxEntries }

Directories == {NoDirectory} \cup { Directory(l) : l \in Listings }

\* Variant of StartsWithUnderscore that looks for "_" anywhere in the name; C14 must
\* tell it from the code.
ContainsUnderscore(name) == \E i \in 1..Len(name) : name[i] = "_"

\* String.prototype.startsWith("_")
StartsWithUnderscore(name) == Len(name) > 0 /\ name[1] = "_"

\* process.env.SUPABASE_URL || process.env.EXPO_PUBLIC_SUPABASE_URL
SupabaseUrl == OrElse(env["SUPABASE_URL"], env["EXPO_PUBLIC_SUPABASE_URL"])

\* Variant of SupabaseKey that prefers the anonymous key; C28 must tell it from the
\* code.
SupabaseKeyAnonFirst ==
    OrElse(OrElse(env["SUPABASE_ANON_KEY"], env["SUPABASE_SERVICE_ROLE_KEY"]),
           env["EXPO_PUBLIC_SUPABASE_ANON_KEY"])

\* process.env.SUPABASE_SERVICE_ROLE_KEY || process.env.SUPABASE_ANON_KEY
\*   || process.env.EXPO_PUBLIC_SUPABASE_ANON_KEY
SupabaseKey == OrElse(OrElse(env["SUPABASE_SERVICE_ROLE_KEY"], env["SUPABASE_ANON_KEY"]),
                      env["EXPO_PUBLIC_SUPABASE_ANON_KEY"])

\* The FunctionInfo pushed at index.ts:53-58.
FunctionInfo(entry) ==
    ObjectOf(<< Prop("name", entry),
                Prop("service", "supabase"),
                Prop("path", <<"supabase/functions/">> \o entry),
                IF Truthy(SupabaseUrl)
                THEN Prop("endpoint", <<SupabaseUrl, "/functions/v1/">> \o entry)
                ELSE [k |-> "endpoint", def |-> FALSE, v |-> "undefined"] >>)

RECURSIVE ScanEntriesSkipsFailure(_)
\* Variant of ScanEntries with the try inside the loop: an entry whose stat() throws
\* is passed over and the scan goes on; C30 must tell it from the code.
ScanEntriesSkipsFailure(entries) ==
    IF entries = <<>> THEN <<>>
    ELSE IF Head(entries).kind = "dir" /\ ~StartsWithUnderscore(Head(entries).name)
    THEN <<FunctionInfo(Head(entries).name)>> \o ScanEntriesSkipsFailure(Tail(entries))
    ELSE ScanEntriesSkipsFailure(Tail(entries))

RECURSIVE ScanEntries(_)
\* The for loop of index.ts:48-60: a stat() that throws ends the loop with what was pushed.
ScanEntries(entries) ==
    IF entries = <<>> THEN <<>>
    ELSE IF Head(entries).kind = "broken" THEN <<>>
    ELSE IF Head(entries).kind = "dir" /\ ~StartsWithUnderscore(Head(entries).name)
    THEN <<FunctionInfo(Head(entries).name)>> \o ScanEntries(Tail(entries))
    ELSE ScanEntries(Tail(entries))

\* discoverFunctions(): readdir() throws when the directory is not there.
discoverFunctions == IF dir.exists THEN ScanEntries(dir.entries) ELSE <<>>

\* Variant of Discover that lets the failure of readdir() reach the catch of the
\* handler; C13 must tell it from the code.
DiscoverThrows(args) ==
    /\ server = "serverless" /\ Ready
    /\ LET functions == discoverFunctions
       IN  call' = IF dir.exists
                   THEN Returned(Entered("discover", args),
                                 JSONstringify(<< Prop("functions", functions),
                                                  Prop("count", Len(functions)) >>))
                   ELSE Caught(Entered("discover", args),
                               <<"ENOENT: no such file or directory, scandir 'supabase/functions'">>)
    /\ UNCHANGED <<server, env, openaiClient, geminiClient, dir, listed, parked, cleanseVars>>

\* The discover case; the scan is taken as one step.
Discover(args) ==
    /\ server = "serverless" /\ Ready
    /\ LET functions == discoverFunctions
       IN  call' = Returned(Entered("discover", args),
                            JSONstringify(<< Prop("functions", functions),
                                             Prop("count", Len(functions)) >>))
    /\ UNCHANGED <<server, env, openaiClient, geminiClient, dir, listed, parked, cleanseVars>>

\* ---------------------------------------------------------------------------
\* invoke                                 serverless index.ts:72-101, 175-194
\* ---------------------------------------------------------------------------

FunctionNames == {<<"hello">>}
Payloads == {[x |-> 1]}
\* An override endpoint; <<>> is the empty string.
Endpoints == {<<"https://example.test/custom">>, <<>>}

InvokeArgs ==
    [name : FunctionNames] \cup [name : FunctionNames, payload : Payloads]
    \cup [name : FunctionNames, endpoint : Endpoints]
    \cup [name : FunctionNames, payload : Payloads, endpoint : Endpoints]

\* Replies of the POST: the content-type header in fragments, and the body.
JsonReply(status, ctype, body) ==
    [failed |-> FALSE, status |-> status, headers |-> [contentType |-> ctype], json |-> TRUE,
     body |-> body]
TextReply(status, headers, text) ==
    [failed |-> FALSE, status |-> status, headers |-> headers, json |-> FALSE,
     body |-> [raw |-> text]]

InvokeReplies ==
    { FetchFailed,
      JsonReply(200, <<"application/json">>, [greeting |-> "hi"]),
      JsonReply(404, <<"application/json", "; charset=utf-8">>, [error |-> "Function not found"]),
      TextReply(500, [contentType |-> <<"text/plain">>], "Internal Server Error"),
      TextReply(204, EmptyObject, ""),
      TextReply(502, [contentType |-> <<"application/json">>], "<html>Bad Gateway</html>") }

\* contentType?.includes("application/json")
IsJsonContentType(reply) ==
    "contentType" \in DOMAIN reply.headers /\ Includes(reply.headers.contentType, "application/json")

\* `${supabaseUrl}/functions/v1/${name}`
FunctionUrl(name) == <<SupabaseUrl, "/functions/v1/">> \o name

\* The POST of index.ts:86-93.
InvokePost(url, payload) ==
    [provider |-> "supabase", api |-> "function", url |-> url,
     authorization |-> <<"Bearer ", SupabaseKey>>,
     body |-> [json |-> payload]]

\* Variant of InvokeRequest without the check of index.ts:80-82; C11 must tell it
\* from the code.
InvokeRequestUnchecked(args) ==
    Return(InvokePost(IF Has(args, "endpoint") /\ args.endpoint # <<>> THEN args.endpoint
                      ELSE FunctionUrl(args.name),
                      Default(args, "payload", EmptyObject)))

\* Variant of InvokeRequest that always posts to the computed URL; C12 must tell it
\* from the code.
InvokeRequestIgnoresEndpoint(args) ==
    IF ~Truthy(SupabaseUrl) \/ ~Truthy(SupabaseKey)
    THEN Throw(<<"Missing SUPABASE_URL or SUPABASE_SERVICE_ROLE_KEY/SUPABASE_ANON_KEY">>)
    ELSE Return(InvokePost(FunctionUrl(args.name), Default(args, "payload", EmptyObject)))

\* Variant of InvokeRequest that asks for the base URL only when it is used, that is
\* when no endpoint is given; C29 must tell it from the code.
InvokeRequestUrlWhenUsed(args) ==
    LET override == Has(args, "endpoint") /\ args.endpoint # <<>>
    IN  IF (~override /\ ~Truthy(SupabaseUrl)) \/ ~Truthy(SupabaseKey)
        THEN Throw(<<"Missing SUPABASE_URL or SUPABASE_SERVICE_ROLE_KEY/SUPABASE_ANON_KEY">>)
        ELSE Return(InvokePost(IF override THEN args.endpoint ELSE FunctionUrl(args.name),
                               Default(args, "payload", EmptyObject)))

\* index.ts:77-93: the Error thrown, or the fetch issued.  `endpoint || ...` takes the
\* computed URL when endpoint is undefined or the empty string; `payload = {}` takes
\* {} when payload is undefined.
InvokeRequest(args) ==
    IF ~Truthy(SupabaseUrl) \/ ~Truthy(SupabaseKey)
    THEN Throw(<<"Missing SUPABASE_URL or SUPABASE_SERVICE_ROLE_KEY/SUPABASE_ANON_KEY">>)
    ELSE Return(InvokePost(IF Has(args, "endpoint") /\ args.endpoint # <<>> THEN args.endpoint
                           ELSE FunctionUrl(args.name),
                           Default(args, "payload", EmptyObject)))

\* Variant of InvokeResult that rejects a reply whose status is not a success, as
\* queryOpenAIResponses does; C19 must tell it from the code.
InvokeResultChecksStatus(reply, args) ==
    IF reply.failed THEN Throw(reply.message)
    ELSE IF ~ResponseOk(reply) THEN Throw(<<"Function error: ", ToString(reply.status)>>)
    ELSE IF IsJsonContentType(reply) /\ ~reply.json THEN Throw(SyntaxErrorMessage)
    ELSE Return(<< Prop("function", args.name),
                   Prop("service", "supabase"),
                   Prop("result", IF IsJsonContentType(reply) THEN reply.body ELSE reply.body.raw),
                   Prop("status", reply.status) >>)

\* index.ts:95-100 and 184-193: what the invoke case returns or throws, given the reply.
InvokeResult(reply, args) ==
    IF reply.failed THEN Throw(reply.message)
    ELSE IF IsJsonContentType(reply) /\ ~reply.json THEN Throw(SyntaxErrorMessage)
    ELSE Return(<< Prop("function", args.name),
                   Prop("service", "supabase"),
                   Prop("result", IF IsJsonContentType(reply) THEN reply.body ELSE reply.body.raw),
                   Prop("status", reply.status) >>)

Invoke(args) ==
    /\ server = "serverless" /\ Ready
    /\ LET c == Entered("invoke", args)
       IN  call' = IF ~HasArgs(args) THEN Caught(c, DestructureError("name"))
                   ELSE LET r == InvokeRequest(args)
                        IN  IF r.ok THEN [c EXCEPT !.awaiting = "invoke", !.requests = <<r.value>>]
                            ELSE Caught(c, r.message)
    /\ UNCHANGED <<server, env, openaiClient, geminiClient, dir, listed, parked, cleanseVars>>

InvokeSettles(reply) ==
    /\ call.pc = "pending" /\ call.name = "invoke" /\ call.awaiting = "invoke"
    /\ call' = Settle(Received(call, "supabase", reply), InvokeResult(reply, call.args))
    /\ UNCHANGED <<server, env, openaiClient, geminiClient, dir, listed, parked, cleanseVars>>

\* ---------------------------------------------------------------------------
\* The default case, list-tools, the transport and the environment
\* ---------------------------------------------------------------------------

\* Variant of UnknownTool whose message interpolates the arguments instead of the
\* name; C1 must tell it from the code.
UnknownToolWrongName(name, args) ==
    /\ Ready
    /\ name \notin CaseLabels(server)
    /\ call' = Caught(Entered(name, args), <<"Unknown tool: ", "[object Object]">>)
    /\ UNCHANGED <<server, env, openaiClient, geminiClient, dir, listed, parked, cleanseVars>>

\* default: throw new Error(`Unknown tool: ${name}`)
\*                               multimodel index.ts:386, serverless index.ts:196
\* Variant of UnknownTool in which the dispatcher creates the OpenAI client before it
\* looks at the name; C25 must tell it from the code.
UnknownToolCreatesClient(name, args) ==
    /\ Ready
    /\ name \notin CaseLabels(server)
    /\ call' = Caught(Entered(name, args), <<"Unknown tool: ", name>>)
    /\ openaiClient' = IF server = "multimodel" THEN getOpenAI.memo ELSE openaiClient
    /\ UNCHANGED <<server, env, geminiClient, dir, listed, parked, cleanseVars>>

UnknownTool(name, args) ==
    /\ Ready
    /\ name \notin CaseLabels(server)
    /\ call' = Caught(Entered(name, args), <<"Unknown tool: ", name>>)
    /\ UNCHANGED <<server, env, openaiClient, geminiClient, dir, listed, parked, cleanseVars>>

\* The list-tools handler.
ListTools ==
    /\ Ready
    /\ listed' = ListToolsResult(server)
    /\ UNCHANGED <<server, env, openaiClient, geminiClient, dir, call, parked, cleanseVars>>

\* The transport writes the reply; the process is ready for the next request.
Deliver ==
    /\ call.pc = "done" \/ listed # NoReply
    /\ call' = Idle
    /\ listed' = NoReply
    /\ UNCHANGED <<server, env, openaiClient, geminiClient, dir, parked, cleanseVars>>

\* The values a variable of process.env takes: not there, empty (the credential
\* variables of the multimodel server and the first key variable of the serverless
\* server), or the value configured for it.
SecretOf ==
    [OPENAI_API_KEY |-> "sk-openai", GEMINI_API_KEY |-> "AIza-gemini", VOYAGE_API_KEY |-> "pa-voyage",
     SUPABASE_URL |-> "https://proj.supabase.co",
     EXPO_PUBLIC_SUPABASE_URL |-> "https://expo.supabase.co",
     SUPABASE_SERVICE_ROLE_KEY |-> "service-role-jwt",
     SUPABASE_ANON_KEY |-> "anon-jwt",
     EXPO_PUBLIC_SUPABASE_ANON_KEY |-> "expo-anon-jwt"]

EnvValuesOf(var) ==
    IF var \in MultimodelEnv \cup {"SUPABASE_SERVICE_ROLE_KEY"}
    THEN {Unset, "", SecretOf[var]}
    ELSE {Unset, SecretOf[var]}

Environments(s) == { e \in [EnvOf(s) -> {Unset, ""} \cup {SecretOf[v] : v \in EnvOf(s)}] :
                       \A v \in EnvOf(s) : e[v] \in EnvValuesOf(v) }

\* process.env changes (a variable is set, emptied or deleted).  Handlers read
\* process.env only before their first await, so a change made while a call waits is
\* the same as one made once the call is over.
SetEnv(var, value) ==
    /\ Ready
    /\ var \in EnvOf(server) /\ value \in EnvValuesOf(var)
    /\ env[var] # value
    /\ env' = [env EXCEPT ![var] = value]
    /\ UNCHANGED <<server, openaiClient, geminiClient, dir, call, listed, parked, cleanseVars>>

\* supabase/functions changes on disk (functions are added, removed, the directory too).
SetDirectory(d) ==
    /\ server = "serverless" /\ Ready
    /\ dir # d
    /\ dir' = d
    /\ UNCHANGED <<server, env, openaiClient, geminiClient, call, listed, parked, cleanseVars>>

\* ---------------------------------------------------------------------------
\* claude-cleanse                                            unnamed/part_009
\*
\* Time is counted in days.  A path is the sequence of the names below CLAUDE_DIR,
\* a name the sequence of its fragments (<<"s1", ".jsonl">> is s1.jsonl); the tree is
\* a function from the paths that exist to [kind, mtime, data], data being the
\* number of lines of history.jsonl and the session ids of sessions-index.json.
\* The script runs under `set -e`: a plain command that returns non-zero ends it.
\* ---------------------------------------------------------------------------

\* Longest command line that is enumerated, in options.
MaxArgs == 3

\* `date +%s`, in days.
Now == 20000

\* cutoff=99999999999 (seconds), in days.
FarFuture == 1157407

\* part_009:9-17
Defaults ==
    [DRY_RUN |-> TRUE, AGGRESSIVE |-> FALSE, SESSIONS_ONLY |-> FALSE, SCAN_ONLY |-> FALSE,
     KEEP_DAYS |-> 7, KEEP_PLANS_DAYS |-> 30, KEEP_HISTORY |-> 500,
     VERBOSE |-> FALSE, QUIET |-> FALSE]

Categories ==
    {"paste-cache", "debug", "session-env", "shell-snapshots", "cache", "plugin-cache",
     "sessions", "history", "file-history", "todos", "tasks", "plans"}

NoCounts == [c \in Categories |-> 0]

\* The options of a command line: a flag, with the value that follows it.
Flag(f) == [flag |-> f]
FlagValue(f, n) == [flag |-> f, value |-> n]
KeepDaysInputs == {30}
KeepHistoryInputs == {0, 2}
Options ==
    { Flag(f) : f \in {"--dry-run", "--execute", "--aggressive", "--sessions-only", "--scan",
                       "--verbose", "--help", "--bogus"} }
    \cup { FlagValue("--keep-days", n) : n \in KeepDaysInputs }
    \cup { FlagValue("--keep-history", n) : n \in KeepHistoryInputs }

CommandLines == UNION { [1..n -> Options] : n \in 0..MaxArgs }

\* One arm of the case statement of part_009:61-73: the options after this argument,
\* or the exit status.
ParseOne(o, a) ==
    CASE a.flag = "--dry-run"       -> [exit |-> -1, opt |-> [o EXCEPT !.DRY_RUN = TRUE]]
      [] a.flag = "--execute"       -> [exit |-> -1, opt |-> [o EXCEPT !.DRY_RUN = FALSE]]
      [] a.flag = "--aggressive"    -> [exit |-> -1, opt |-> [o EXCEPT !.AGGRESSIVE = TRUE,
                                                   !.KEEP_DAYS = 0, !.KEEP_HISTORY = 0,
                                                   !.KEEP_PLANS_DAYS = 0]]
      [] a.flag = "--sessions-only" -> [exit |-> -1, opt |-> [o EXCEPT !.SESSIONS_ONLY = TRUE]]
      [] a.flag = "--scan"          -> [exit |-> -1, opt |-> [o EXCEPT !.SCAN_ONLY = TRUE]]
      [] a.flag = "--keep-days"     -> [exit |-> -1, opt |-> [o EXCEPT !.KEEP_DAYS = a.value]]
      [] a.flag = "--keep-history"  -> [exit |-> -1, opt |-> [o EXCEPT !.KEEP_HISTORY = a.value]]
      [] a.flag = "--verbose"       -> [exit |-> -1, opt |-> [o EXCEPT !.VERBOSE = TRUE]]
      [] a.flag = "--quiet"         -> [exit |-> -1, opt |-> [o EXCEPT !.QUIET = TRUE]]
      [] a.flag \in {"--help", "-h"} -> [exit |-> 0, opt |-> o]
      [] OTHER                      -> [exit |-> 1, opt |-> o]

RECURSIVE ParseFrom(_, _)
\* The while loop of part_009:60-74.
ParseFrom(o, args) ==
    IF args = <<>> THEN [exit |-> -1, opt |-> o]
    ELSE LET r == ParseOne(o, Head(args))
         IN  IF r.exit # -1 THEN r ELSE ParseFrom(r.opt, Tail(args))

\* --- the tree under CLAUDE_DIR ---

Root == <<>>
File(mtime, data) == [kind |-> "file", mtime |-> mtime, data |-> data]
Dir(mtime) == [kind |-> "dir", mtime |-> mtime, data |-> 0]

\* [[ -d path ]], [[ -f path ]]
IsDir(f, p) == p \in DOMAIN f /\ f[p].kind = "dir"
IsFile(f, p) == p \in DOMAIN f /\ f[p].kind = "file"

IsPrefix(p, q) == Len(p) <= Len(q) /\ SubSeq(q, 1, Len(p)) = p
\* find "$dir" -mindepth 1 -maxdepth 1
Children(f, p) == { q \in DOMAIN f : Len(q) = Len(p) + 1 /\ IsPrefix(p, q) }
Basename(p) == p[Len(p)]
\* The glob *<ext> on a name, and basename "$file" <ext>
HasExt(name, ext) == Len(name) > 1 /\ name[Len(name)] = ext
StripExt(name) == SubSeq(name, 1, Len(name) - 1)

\* rm -rf of every path of P (rm -f of a file)
Remove(f, P) == [q \in { q \in DOMAIN f : \A p \in P : ~IsPrefix(p, q) } |-> f[q]]
\* mkdir -p "$dir" of a directory whose parent exists
Mkdir(f, p) == IF p \in DOMAIN f THEN f ELSE [q \in DOMAIN f \cup {p} |-> IF q = p THEN Dir(Now) ELSE f[q]]
\* A file replaced by `mv "$file.tmp" "$file"`
Replace(f, p, data) == [f EXCEPT ![p] = File(Now, data)]

\* --- the shell while a phase runs: the tree, the counters, and whether `set -e`
\* --- has ended the script (exit status 1)

Shell(f, c) == [fs |-> f, cat |-> c, exited |-> FALSE]
Exit(sh) == [sh EXCEPT !.exited = TRUE]

\* part_009:83-85: `[[ "$VERBOSE" == true ]] && echo ...` returns 1 when VERBOSE is
\* not true, and every call of log_verbose is a plain command: the script ends there.
log_verbose(sh) == IF opt.VERBOSE THEN sh ELSE Exit(sh)

\* part_009:140-146 (the sizes, which are only reported, are left out)
track(category, files, sh) == [sh EXCEPT !.cat[category] = @ + files]

\* part_009:149-175
remove_dir_contents(category, d, sh) ==
    IF sh.exited \/ ~IsDir(sh.fs, d) THEN sh
    ELSE LET count == Cardinality(Children(sh.fs, d))
             said == log_verbose(sh)
         IN  IF count = 0 THEN sh
             ELSE IF said.exited THEN said
             ELSE track(category, count,
                        IF opt.DRY_RUN THEN sh
                        ELSE [sh EXCEPT !.fs = Mkdir(Remove(sh.fs, {d}), d)])

\* Variant of remove_file without the DRY_RUN test of part_009:190; C20 must tell it
\* from the code.
remove_fileUnconditionally(category, file, sh) ==
    IF sh.exited \/ ~IsFile(sh.fs, file) THEN sh
    ELSE LET said == log_verbose(sh)
         IN  IF said.exited THEN said
             ELSE track(category, 1, [sh EXCEPT !.fs = Remove(sh.fs, {file})])

\* part_009:177-195
remove_file(category, file, sh) ==
    IF sh.exited \/ ~IsFile(sh.fs, file) THEN sh
    ELSE LET said == log_verbose(sh)
         IN  IF said.exited THEN said
             ELSE track(category, 1,
                        IF opt.DRY_RUN THEN sh
                        ELSE [sh EXCEPT !.fs = Remove(sh.fs, {file})])

\* part_009:199-209: the exit status of validate, -1 when it returns
validate(f) ==
    IF ~IsDir(f, Root) THEN 1
    ELSE IF /\ ~IsFile(f, << <<"settings", ".json">> >>)
            /\ ~IsDir(f, << <<"projects">> >>)
            /\ ~IsFile(f, << <<"history", ".jsonl">> >>)
    THEN 1
    ELSE -1

\* part_009:219-232
clean_ephemeral(sh) ==
    LET s1 == remove_dir_contents("paste-cache", << <<"paste-cache">> >>, sh)
        s2 == remove_dir_contents("debug", << <<"debug">> >>, s1)
        s3 == remove_dir_contents("session-env", << <<"session-env">> >>, s2)
        s4 == remove_dir_contents("shell-snapshots", << <<"shell-snapshots">> >>, s3)
        s5 == remove_file("cache", << <<"cache">>, <<"changelog", ".md">> >>, s4)
        s6 == IF ~s5.exited /\ IsDir(s5.fs, << <<"plugins">>, <<"cache">> >>)
              THEN remove_dir_contents("plugin-cache", << <<"plugins">>, <<"cache">> >>, s5)
              ELSE s5
    IN  remove_file("plugin-cache", << <<"plugins">>, <<"install-counts-cache", ".json">> >>, s6)

\* part_009:100-107
get_cutoff_epoch(days) == Now - days

\* part_009:243-248
SessionCutoff == IF opt.AGGRESSIVE THEN FarFuture ELSE get_cutoff_epoch(opt.KEEP_DAYS)

\* "$CLAUDE_DIR"/projects/*/
ProjectDirs(f) == { p \in Children(f, << <<"projects">> >>) : IsDir(f, p) }
\* "$project_dir"*.jsonl that are files
SessionFiles(f, project) ==
    { s \in Children(f, project) : IsFile(f, s) /\ HasExt(Basename(s), ".jsonl") }
\* part_009:269: the sessions older than the cutoff
OldSessions(f, project) == { s \in SessionFiles(f, project) : f[s].mtime < SessionCutoff }
\* "$project_dir$session_id"
SessionDir(s) == SubSeq(s, 1, Len(s) - 1) \o << StripExt(Basename(s)) >>
\* part_009:289: remaining_ids
RemainingIds(f, project) ==
    { StripExt(Basename(s)) : s \in SessionFiles(f, project) \ OldSessions(f, project) }
IndexFile(project) == project \o << <<"sessions-index", ".json">> >>

\* part_009:281-284: rm -f "$jsonl" and rm -rf of its directory, for the old sessions
RemoveSessions(f, project) ==
    Remove(f, OldSessions(f, project) \cup { SessionDir(s) : s \in OldSessions(f, project) })

\* part_009:293-304: .entries |= map(select(.sessionId as $id | $keep | index($id)))
RewriteIndex(f, project, keep) ==
    IF IsFile(f, IndexFile(project)) /\ jq
    THEN Replace(f, IndexFile(project),
                 SelectSeq(f[IndexFile(project)].data, LAMBDA id : id \in keep))
    ELSE f

RECURSIVE CleanProjects(_, _)
\* The loop of part_009:251-310 over the projects that are left to process.  Without
\* --verbose the first old session ends the script (part_009:279) before anything is
\* removed.
CleanProjects(projects, sh) ==
    IF sh.exited \/ projects = {} THEN sh
    ELSE LET project == CHOOSE p \in projects : TRUE
             old == OldSessions(sh.fs, project)
             keep == RemainingIds(sh.fs, project)
             said == log_verbose(sh)
             done ==
                 IF old = {} THEN sh
                 ELSE IF said.exited THEN said
                 ELSE track("sessions", Cardinality(old),
                            IF opt.DRY_RUN THEN sh
                            ELSE [sh EXCEPT !.fs = RewriteIndex(RemoveSessions(sh.fs, project),
                                                                project, keep)])
         IN  CleanProjects(projects \ {project}, done)

\* part_009:236-311
clean_sessions(sh) == CleanProjects(ProjectDirs(sh.fs), sh)

\* part_009:315-351
clean_history(sh) ==
    LET history == << <<"history", ".jsonl">> >>
        total_lines == sh.fs[history].data
        said == log_verbose(sh)
    IN  IF ~IsFile(sh.fs, history) THEN Exit(sh)
        ELSE IF opt.AGGRESSIVE \/ opt.KEEP_HISTORY = 0
        THEN IF said.exited THEN said
             ELSE track("history", 1,
                        IF opt.DRY_RUN THEN sh
                        ELSE [sh EXCEPT !.fs = Remove(sh.fs, {history})])
        ELSE IF total_lines > opt.KEEP_HISTORY
        THEN LET cut == IF opt.DRY_RUN THEN sh
                        ELSE [sh EXCEPT !.fs = Replace(sh.fs, history, opt.KEEP_HISTORY)]
             IN  IF opt.VERBOSE
                 THEN track("history", total_lines - opt.KEEP_HISTORY, cut)
                 ELSE Exit(cut)
        ELSE said

\* One block of part_009:364-446: the entries of `d` that `matches` and are older than
\* the cutoff are removed and counted.
CleanAged(category, d, matches(_, _), cutoff, sh) ==
    IF sh.exited \/ ~IsDir(sh.fs, d) THEN sh
    ELSE LET old == { e \in Children(sh.fs, d) : matches(sh.fs, e) /\ sh.fs[e].mtime < cutoff }
             gone == IF opt.DRY_RUN THEN sh ELSE [sh EXCEPT !.fs = Remove(sh.fs, old)]
         IN  IF old = {} THEN sh
             ELSE IF opt.VERBOSE THEN track(category, Cardinality(old), gone)
             ELSE Exit(gone)

IsSubdir(f, e) == IsDir(f, e)
IsJsonFile(f, e) == IsFile(f, e) /\ HasExt(Basename(e), ".json")
IsMdFile(f, e) == IsFile(f, e) /\ HasExt(Basename(e), ".md")

\* part_009:355-447
clean_auxiliary(sh) ==
    LET cutoff == get_cutoff_epoch(opt.KEEP_DAYS)
        plans_cutoff == get_cutoff_epoch(opt.KEEP_PLANS_DAYS)
        s1 == CleanAged("file-history", << <<"file-history">> >>, IsSubdir, cutoff, sh)
        s2 == CleanAged("todos", << <<"todos">> >>, IsJsonFile, cutoff, s1)
        s3 == CleanAged("tasks", << <<"tasks">> >>, IsSubdir, cutoff, s2)
    IN  CleanAged("plans", << <<"plans">> >>, IsMdFile, plans_cutoff, s3)

\* --- the trees a run starts from ---

Entry(path, node) == [path |-> path, node |-> node]
Tree(entries) == [p \in { e.path : e \in entries } |-> (CHOOSE e \in entries : e.path = p).node]

\* A ~/.claude whose dated entries have modification time `mtime`, whose history.jsonl
\* has `lines` lines (none when negative), with or without cached items.
Home(mtime, lines, cached) ==
    Tree({ Entry(Root, Dir(Now)),
           Entry(<< <<"settings", ".json">> >>, File(mtime, 0)),
           Entry(<< <<"paste-cache">> >>, Dir(mtime)),
           Entry(<< <<"debug">> >>, Dir(mtime)),
           Entry(<< <<"cache">> >>, Dir(mtime)),
           Entry(<< <<"projects">> >>, Dir(mtime)),
           Entry(<< <<"projects">>, <<"p1">> >>, Dir(mtime)),
           Entry(<< <<"projects">>, <<"p1">>, <<"s1", ".jsonl">> >>, File(mtime, 0)),
           Entry(<< <<"projects">>, <<"p1">>, <<"s1">> >>, Dir(mtime)),
           Entry(<< <<"projects">>, <<"p1">>, <<"s2", ".jsonl">> >>, File(Now - 1, 0)),
           Entry(<< <<"projects">>, <<"p1">>, <<"sessions-index", ".json">> >>,
                 File(Now - 1, << <<"s1">>, <<"s2">> >>)),
           Entry(<< <<"file-history">> >>, Dir(mtime)),
           Entry(<< <<"file-history">>, <<"f1">> >>, Dir(mtime)),
           Entry(<< <<"todos">> >>, Dir(mtime)),
           Entry(<< <<"todos">>, <<"a", ".json">> >>, File(mtime, 0)),
           Entry(<< <<"tasks">> >>, Dir(mtime)),
           Entry(<< <<"tasks">>, <<"t1">> >>, Dir(mtime)),
           Entry(<< <<"plans">> >>, Dir(mtime)),
           Entry(<< <<"plans">>, <<"x", ".md">> >>, File(mtime, 0)) }
         \cup (IF lines < 0 THEN {}
               ELSE { Entry(<< <<"history", ".jsonl">> >>, File(Now - 1, lines)) })
         \cup (IF cached
               THEN { Entry(<< <<"paste-cache">>, <<"1", ".txt">> >>, File(mtime, 0)),
                      Entry(<< <<"cache">>, <<"changelog", ".md">> >>, File(mtime, 0)) }
               ELSE {}))

\* CLAUDE_DIR does not exist; it exists and holds nothing of Claude Code.
NoHome == Tree({})
OtherDirectory == Tree({ Entry(Root, Dir(Now)), Entry(<< <<"notes", ".txt">> >>, File(Now, 0)) })

Mtimes == {Now - 40, Now - 10, Now}
HistoryLines == {-1, 3, 600}
Homes == { Home(m, l, TRUE) : m \in Mtimes, l \in HistoryLines }
         \cup { Home(Now, l, FALSE) : l \in HistoryLines }
         \cup {NoHome, OtherDirectory}

\* --- the run ---

NotCleansing ==
    /\ argv = <<>> /\ opt = Defaults /\ cat_files = NoCounts
    /\ fs = NoHome /\ jq = FALSE /\ phase = "off"

\* part_009:60-74
ParseArguments ==
    /\ phase = "parse"
    /\ LET r == ParseFrom(Defaults, argv)
       IN  /\ opt' = r.opt
           /\ phase' = IF r.exit = 0 THEN "exit 0" ELSE IF r.exit = 1 THEN "exit 1" ELSE "validate"
    /\ UNCHANGED <<serverVars, argv, cat_files, fs, jq>>

\* After a phase of main: the script has ended, or goes on with `next`.
After(sh, next) ==
    /\ fs' = sh.fs
    /\ cat_files' = sh.cat
    /\ phase' = IF sh.exited THEN "exit 1" ELSE next
    /\ UNCHANGED <<serverVars, argv, opt, jq>>

\* part_009:538-552
Validate ==
    /\ phase = "validate"
    /\ phase' = IF validate(fs) = 1 THEN "exit 1"
                ELSE IF opt.SCAN_ONLY THEN "scan"
                ELSE IF opt.SESSIONS_ONLY THEN "sessions"
                ELSE "ephemeral"
    /\ UNCHANGED <<serverVars, argv, opt, cat_files, fs, jq>>

\* part_009:451-500 and 544-547: the scan reads the tree and the script exits 0
ScanSecrets ==
    /\ phase = "scan"
    /\ phase' = "exit 0"
    /\ UNCHANGED <<serverVars, argv, opt, cat_files, fs, jq>>

\* part_009:554-556
CleanEphemeral ==
    /\ phase = "ephemeral"
    /\ After(clean_ephemeral(Shell(fs, cat_files)), "sessions")

\* part_009:558-563
CleanSessions ==
    /\ phase = "sessions"
    /\ After(clean_sessions(Shell(fs, cat_files)), IF opt.SESSIONS_ONLY THEN "summary" ELSE "history")

\* part_009:561
CleanHistory ==
    /\ phase = "history"
    /\ After(clean_history(Shell(fs, cat_files)), "auxiliary")

\* part_009:562
CleanAuxiliary ==
    /\ phase = "auxiliary"
    /\ After(clean_auxiliary(Shell(fs, cat_files)), "summary")

\* part_009:504-533, 565: the summary is printed and main returns
PrintSummary ==
    /\ phase = "summary"
    /\ phase' = "exit 0"
    /\ UNCHANGED <<serverVars, argv, opt, cat_files, fs, jq>>

\* part_009:140-146: total_files
total_files == LET RECURSIVE Sum(_)
                   Sum(S) == IF S = {} THEN 0
                             ELSE LET c == CHOOSE c \in S : TRUE IN cat_files[c] + Sum(S \ {c})
               IN  Sum(Categories)

\* ---------------------------------------------------------------------------
\* The specification
\* ---------------------------------------------------------------------------

Init ==
    /\ server \in Servers
    /\ env \in Environments(server)
    /\ openaiClient = Null
    /\ geminiClient = Null
    /\ dir \in IF server = "serverless" THEN Directories ELSE {NoDirectory}
    /\ call = Idle
    /\ listed = NoReply
    /\ parked = Idle
    /\ NotCleansing

AnyArgs(S) == S \cup {UndefinedArgs}

Next ==
    \/ ListTools
    \/ Deliver
    \/ \E var \in MultimodelEnv \cup ServerlessEnv :
          \E value \in EnvValuesOf(var) : SetEnv(var, value)
    \/ \E d \in Directories : SetDirectory(d)
    \/ \E name \in ToolNames, args \in {UndefinedArgs, EmptyObject} : UnknownTool(name, args)
    \/ \E args \in AnyArgs(QueryArgs(OpenAIModelInputs)) : QueryOpenAI(args)
    \/ \E reply \in ResponsesReplies(OpenAIModel(call.args)) : QueryOpenAIResponsesSettles(reply)
    \/ \E reply \in ChatReplies(OpenAIModel(call.args)) : QueryOpenAIChatSettles(reply)
    \/ \E args \in AnyArgs(QueryArgs(GeminiModelInputs)) : QueryGemini(args)
    \/ \E reply \in GeminiReplies : QueryGeminiSettles(reply)
    \/ \E args \in AnyArgs(EmbedArgs) : EmbedVoyage(args)
    \/ \E reply \in VoyageReplies : EmbedVoyageSettles(reply)
    \/ \E args \in AnyArgs(ParallelArgs) : ParallelQuery(args)
    \/ \E reply \in ResponsesReplies(ParallelOpenAIModel(call.args)) : ParallelOpenAIResponsesSettles(reply)
    \/ \E reply \in ChatReplies(ParallelOpenAIModel(call.args)) : ParallelOpenAIChatSettles(reply)
    \/ \E reply \in GeminiReplies : ParallelGeminiSettles(reply)
    \/ ParallelJoin
    \/ \E args \in AnyArgs({EmptyObject}) : Discover(args)
    \/ \E args \in AnyArgs(InvokeArgs) : Invoke(args)
    \/ \E reply \in InvokeReplies : InvokeSettles(reply)

Spec == Init /\ [][Next]_vars

\* One run of claude-cleanse on a command line and a tree.
CleanseInit ==
    /\ server = "none" /\ env = EmptyObject /\ openaiClient = Null /\ geminiClient = Null
    /\ dir = NoDirectory /\ call = Idle /\ listed = NoReply /\ parked = Idle
    /\ argv \in CommandLines
    /\ opt = Defaults
    /\ cat_files = NoCounts
    /\ fs \in Homes
    /\ jq \in BOOLEAN
    /\ ~jq => fs = Home(Now - 40, 600, TRUE)
    /\ phase = "parse"

CleanseNext ==
    \/ ParseArguments
    \/ Validate
    \/ ScanSecrets
    \/ CleanEphemeral
    \/ CleanSessions
    \/ CleanHistory
    \/ CleanAuxiliary
    \/ PrintSummary

CleanseSpec == CleanseInit /\ [][CleanseNext]_vars

\* The multimodel server on a pipelined transport: a second call-tool request is
\* taken up while the handler of the first is suspended at an await.  JavaScript runs
\* a handler without interruption from one await to the next, so the steps of two
\* calls interleave at the awaits only: Switch is the event loop turning to the other
\* call (a new request, or the continuation of the suspended handler).
Switch ==
    /\ server = "multimodel" /\ listed = NoReply
    /\ call # parked
    /\ call' = parked
    /\ parked' = call
    /\ UNCHANGED <<server, env, openaiClient, geminiClient, dir, listed, cleanseVars>>

\* The requests of the pipelined run.
PipelineQueryOpenAIArgs ==
    { [prompt |-> "2+2?"], [prompt |-> "2+2?", model |-> "gpt-5.2-2025-12-11"] }
PipelineQueryGeminiArgs == { [prompt |-> "2+2?"], [prompt |-> "2+2?", model |-> "gemini-1.5-pro"] }
PipelineEmbedArgs == { [text |-> "2+2?"] }
PipelineParallelArgs ==
    { [prompt |-> "2+2?"], [prompt |-> "2+2?", openai_model |-> "gpt-4o"] }

PipelineInit ==
    /\ server = "multimodel"
    /\ env \in Environments("multimodel")
    /\ openaiClient = Null
    /\ geminiClient = Null
    /\ dir = NoDirectory
    /\ call = Idle
    /\ listed = NoReply
    /\ parked = Idle
    /\ NotCleansing

PipelineNext ==
    \/ Switch
    \/ Deliver
    \/ \E name \in {"invoke"}, args \in {EmptyObject} : UnknownTool(name, args)
    \/ \E args \in PipelineQueryOpenAIArgs : QueryOpenAI(args)
    \/ \E reply \in ResponsesReplies(OpenAIModel(call.args)) : QueryOpenAIResponsesSettles(reply)
    \/ \E reply \in ChatReplies(OpenAIModel(call.args)) : QueryOpenAIChatSettles(reply)
    \/ \E args \in PipelineQueryGeminiArgs : QueryGemini(args)
    \/ \E reply \in GeminiReplies : QueryGeminiSettles(reply)
    \/ \E args \in PipelineEmbedArgs : EmbedVoyage(args)
    \/ \E reply \in VoyageReplies : EmbedVoyageSettles(reply)
    \/ \E args \in PipelineParallelArgs : ParallelQuery(args)
    \/ \E reply \in ResponsesReplies(ParallelOpenAIModel(call.args)) : ParallelOpenAIResponsesSettles(reply)
    \/ \E reply \in ChatReplies(ParallelOpenAIModel(call.args)) : ParallelOpenAIChatSettles(reply)
    \/ \E reply \in GeminiReplies : ParallelGeminiSettles(reply)
    \/ ParallelJoin

PipelineSpec == PipelineInit /\ [][PipelineNext]_vars

\* ---------------------------------------------------------------------------
\* Properties
\* ---------------------------------------------------------------------------

Done == call.pc = "done"
InCatalog == call.name \in CaseLabels(server)
\* The content blocks and the parsed text of the reply to the call.
Blocks == call.envelope.content
Payload == call.envelope.content[1].text.json
\* The error envelope whose text is the JSON object {error: message}.
ErrorShape(message) ==
    [content |-> << [type |-> "text", text |-> [json |-> [error |-> message]]] >>,
     isError |-> TRUE]
Raised == call.thrown # NoError
\* The upstream request of the call was issued and answered by `provider`.
Answered(provider) == provider \in DOMAIN call.replies
\* The answer is a reply the handler can use: a success status with a JSON body, a
\* resolved SDK call, or (invoke) any reply whose body is what its content-type says.
Usable(reply) ==
    IF "failed" \notin DOMAIN reply THEN reply.ok
    ELSE IF reply.failed THEN FALSE
    ELSE IF "headers" \in DOMAIN reply THEN IsJsonContentType(reply) => reply.json
    ELSE ResponseOk(reply) /\ reply.json

\* C1: in both servers a call-tool request for a name that is not in the server's
\* catalog returns the envelope with isError = true whose single text block is the
\* JSON object {error: "Unknown tool: <name>"}, <name> being the requested name.
C1_UnknownTool ==
    (Done /\ ~InCatalog) => call.envelope = ErrorShape(<<"Unknown tool: ", call.name>>)

C1_Witness ==
    /\ Done /\ server = "multimodel" /\ call.name = "invoke"
    /\ call.envelope = ErrorShape(<<"Unknown tool: ", "invoke">>)

\* C2: every tool call, in both servers and after any earlier calls, produces an
\* envelope with exactly one content block, and isError is true if and only if the
\* dispatcher or the handler threw; on a normal return it is not.
C2_OneBlockErrorIffRaised ==
    Done => /\ Len(Blocks) = 1
            /\ IsError(call.envelope) <=> Raised

C2_Witness ==
    /\ Done /\ server = "multimodel" /\ call.name = "query_gemini" /\ Raised
    /\ IsError(call.envelope) /\ openaiClient # Null

\* C3 as stated: every call of a catalog tool with valid arguments returns
\* isError: false and a single content block whose text parses as JSON.
C3_Original ==
    (Done /\ InCatalog /\ HasArgs(call.args)) =>
        /\ ~IsError(call.envelope)
        /\ Len(Blocks) = 1
        /\ ParsesAsJSON(Blocks[1].text)

\* C3 (amended): every call of a catalog tool with valid arguments returns a single
\* content block whose text parses as JSON; isError is false whenever the tool's
\* credential or configuration was resolved (its upstream request was issued) and the
\* upstream answer is usable, and always for discover and parallel_query.
C3_ValidCall ==
    (Done /\ InCatalog /\ HasArgs(call.args)) =>
        /\ Len(Blocks) = 1
        /\ ParsesAsJSON(Blocks[1].text)
        /\ call.name \in {"discover", "parallel_query"} => ~IsError(call.envelope)
        /\ (\E p \in DOMAIN call.replies : Usable(call.replies[p])) => ~IsError(call.envelope)
        /\ IsError(call.envelope) =>
              \/ call.requests = <<>>
              \/ \E p \in DOMAIN call.replies : ~Usable(call.replies[p])

C3_Witness ==
    /\ Done /\ call.name = "query_openai" /\ HasArgs(call.args)
    /\ Answered("openai") /\ Usable(call.replies["openai"])
    /\ ~IsError(call.envelope) /\ ParsesAsJSON(Blocks[1].text)

\* C4: the call-tool handler lets no exception escape: whatever the try block throws
\* (the dispatcher's default case, destructuring absent arguments, credential
\* resolution, the upstream call, reading its body) ends in the envelope
\* {content: [{type: text, text: JSON {error: message}}], isError: true} with the
\* message of the Error thrown.
C4_NoEscape ==
    /\ call.pc \in {"idle", "pending", "done"}
    /\ Raised => (Done /\ call.envelope = ErrorShape(call.thrown.message))

C4_Witness ==
    /\ Done /\ call.name = "parallel_query" /\ ~HasArgs(call.args)
    /\ call.envelope = ErrorShape(DestructureError("prompt"))

\* The credential variable of a single-provider tool of the multimodel server.
CredentialOf(name) ==
    IF name = "query_openai" THEN ENV_NAMES.openai
    ELSE IF name = "query_gemini" THEN ENV_NAMES.google
    ELSE ENV_NAMES.voyage

\* A finished call of a provider handler, with arguments (and for query_openai an
\* allowed model), made while the provider's variable is cleared (deleted or empty).
\* process.env changes only between calls, so env is what the call saw.
CalledWithCredentialCleared ==
    /\ Done /\ server = "multimodel" /\ HasArgs(call.args)
    /\ call.name \in {"query_openai", "query_gemini", "embed_voyage"}
    /\ call.name = "query_openai" => Includes(MODELS.openai.available, OpenAIModel(call.args))
    /\ ~Truthy(env[CredentialOf(call.name)])

NamesTheVariable ==
    /\ IsError(call.envelope)
    /\ Includes(Payload.error, CredentialOf(call.name))

\* C5 as stated: once the credential variable is cleared, every later invocation of
\* the provider's handler, whatever calls preceded it, yields an error whose message
\* contains the variable's name.
C5_Original == CalledWithCredentialCleared => NamesTheVariable

\* The call goes through a client object that an earlier call may have memoized.
UsesMemoizedClient ==
    \/ call.name = "query_openai" /\ ~UsesResponsesApi(OpenAIModel(call.args)) /\ openaiClient # Null
    \/ call.name = "query_gemini" /\ geminiClient # Null

\* C5 (amended): once the credential variable is cleared, every later invocation (with
\* an arguments object) of the provider's handler yields an error whose message
\* contains the variable's name, unless the call goes through a provider client that
\* an earlier successful call memoized (query_gemini, and query_openai with a
\* chat-completions model): such a call does not read the variable again.
C5_CredentialMissing ==
    (CalledWithCredentialCleared /\ ~UsesMemoizedClient) =>
        /\ NamesTheVariable
        /\ call.envelope = ErrorShape(<<CredentialOf(call.name), " not set">>)
        /\ call.requests = <<>>

C5_Witness ==
    /\ CalledWithCredentialCleared /\ call.name = "query_openai"
    /\ openaiClient # Null
    /\ env["OPENAI_API_KEY"] = ""
    /\ call.envelope = ErrorShape(<<"OPENAI_API_KEY", " not set">>)

\* The call issued a request to the provider.
HasRequest(provider) == \E i \in 1..Len(call.requests) : call.requests[i].provider = provider
RequestsTo(provider) ==
    Cardinality({i \in 1..Len(call.requests) : call.requests[i].provider = provider})

\* A branch of parallel_query succeeded: its credential was resolved and the
\* provider's answer is usable.
BranchSucceeded(provider) ==
    HasRequest(provider) /\ Answered(provider) /\ Usable(call.replies[provider])

\* What parallel_query must report for a branch, from the promise of that branch alone.
ReportedAs(field, provider, branch, variable) ==
    IF BranchSucceeded(provider)
    THEN /\ branch.status = "fulfilled"
         /\ field = ObjectOf(branch.value)
         /\ DOMAIN field \subseteq {"content", "model", "usage"}
    ELSE /\ branch.status = "rejected"
         /\ field = [error |-> branch.reason.message]
         /\ ~HasRequest(provider) => field = [error |-> <<variable, " not set">>]

\* C6: parallel_query reports each provider independently: whichever of the two
\* branches succeed or fail (a missing key included), the call returns a non-error
\* envelope whose openai field is that branch's payload or {error: message} and whose
\* gemini field is that branch's payload or {error: message}.
C6_Independent ==
    (Done /\ server = "multimodel" /\ call.name = "parallel_query" /\ HasArgs(call.args)) =>
        /\ ~IsError(call.envelope)
        /\ Len(Blocks) = 1
        /\ DOMAIN Payload = {"openai", "gemini"}
        /\ ReportedAs(Payload.openai, "openai", call.oa, "OPENAI_API_KEY")
        /\ ReportedAs(Payload.gemini, "gemini", call.gm, "GEMINI_API_KEY")

C6_Witness ==
    /\ Done /\ call.name = "parallel_query"
    /\ ~IsError(call.envelope)
    /\ Payload.openai = [error |-> <<"OPENAI_API_KEY", " not set">>]
    /\ Payload.gemini = [content |-> <<"4">>, model |-> "gemini-3-pro-preview",
                         usage |-> [totalTokenCount |-> 7]]

Settled(branch) == branch.status \in {"fulfilled", "rejected"}

\* C7: parallel_query is a join: both sub-calls are started before either is awaited
\* (as soon as the call waits, each branch has rejected or has its request out), and
\* the reply is produced only when both branches have settled.
C7_Join ==
    (server = "multimodel" /\ call.name = "parallel_query" /\ HasArgs(call.args)) =>
        /\ call.pc = "pending" =>
              /\ call.oa.status = "pending" => HasRequest("openai")
              /\ call.gm.status = "pending" => HasRequest("gemini")
              /\ call.oa.status # "none" /\ call.gm.status # "none"
        /\ Done => (Settled(call.oa) /\ Settled(call.gm))

C7_Witness ==
    /\ call.pc = "pending" /\ call.name = "parallel_query"
    /\ call.oa.status = "rejected" /\ Answered("openai")
    /\ call.gm.status = "pending"
    /\ call.envelope = NoEnvelope

\* C8 as stated: for every provider handler of the multimodel server, an upstream
\* request that fails (a non-success HTTP status, a failed network call, a rejected
\* SDK call) ends the tool call in an error envelope.
C8_UpstreamFailureIsError ==
    (/\ Done /\ server = "multimodel"
     /\ call.name \in {"query_openai", "query_gemini", "embed_voyage"}
     /\ \E p \in DOMAIN call.replies : UpstreamFailed(call.replies[p]))
    => IsError(call.envelope)

\* C9: no handler retries: a tool call issues at most one upstream request to each
\* provider, and a single-provider tool at most one request, whether the request
\* succeeds or fails.
C9_NoRetry ==
    /\ \A p \in {"openai", "gemini", "voyage", "supabase"} : RequestsTo(p) <= 1
    /\ call.name # "parallel_query" => Len(call.requests) <= 1
    /\ DOMAIN call.replies \subseteq {call.requests[i].provider : i \in 1..Len(call.requests)}

C9_Witness ==
    /\ Done /\ call.name = "query_openai"
    /\ Answered("openai") /\ UpstreamFailed(call.replies["openai"])
    /\ Len(call.requests) = 1

\* The names of the tools a list-tools reply holds, in order.
ListedNames == [i \in 1..Len(listed.tools) |-> listed.tools[i].name]

\* C10: the list-tools request returns the same fixed catalog on every call in a
\* process (multimodel: query_openai, query_gemini, embed_voyage, parallel_query;
\* serverless: discover, invoke), whatever the environment holds and whatever calls
\* were made before; answering it changes nothing of the process.
C10_FixedCatalog ==
    /\ [](listed # NoReply =>
            /\ listed = ListToolsResult(server)
            /\ ListedNames = IF server = "multimodel"
                             THEN <<"query_openai", "query_gemini", "embed_voyage", "parallel_query">>
                             ELSE <<"discover", "invoke">>)
    /\ [][listed' # listed =>
            UNCHANGED <<server, env, openaiClient, geminiClient, dir, call>>]_vars

C10_Witness ==
    /\ listed # NoReply /\ server = "multimodel"
    /\ openaiClient # Null
    /\ \A v \in MultimodelEnv : env[v] = Unset
    /\ Len(listed.tools) = 4

\* The configuration of invoke is incomplete: no base URL or no auth key.
ConfigurationMissing == ~Truthy(SupabaseUrl) \/ ~Truthy(SupabaseKey)
MissingMessage == <<"Missing SUPABASE_URL or SUPABASE_SERVICE_ROLE_KEY/SUPABASE_ANON_KEY">>

\* C11: invoke fails fast on missing configuration: with the base URL or the auth key
\* absent (both absent included) the call returns the error envelope naming the
\* variables and issues no HTTP request; the server still answers list-tools and
\* discover.
C11_FailFast ==
    (server = "serverless" /\ ConfigurationMissing) =>
        /\ (call.name = "invoke" /\ HasArgs(call.args)) =>
              /\ call.requests = <<>>
              /\ call.pc # "pending"
              /\ Done => call.envelope = ErrorShape(MissingMessage)
        /\ (Done /\ call.name = "discover") => ~IsError(call.envelope)
        /\ listed # NoReply => listed = ListToolsResult("serverless")

C11_Witness ==
    /\ Done /\ server = "serverless" /\ call.name = "invoke" /\ HasArgs(call.args)
    /\ \A v \in ServerlessEnv : env[v] = Unset
    /\ call.envelope = ErrorShape(MissingMessage)
    /\ call.requests = <<>>

\* The POST that the invoke call issued.
Posted == call.requests[1]
InvokeIssued == server = "serverless" /\ call.name = "invoke" /\ call.requests # <<>>

\* C12 as stated: the POST target of invoke is the caller's endpoint whenever one is
\* given, otherwise <base URL>/functions/v1/<name>; the body is the JSON encoding of
\* payload, {} when payload is omitted.
C12_Original ==
    InvokeIssued =>
        /\ Posted.url = IF Has(call.args, "endpoint") THEN call.args.endpoint
                        ELSE <<SupabaseUrl, "/functions/v1/">> \o call.args.name
        /\ Posted.body = [json |-> IF Has(call.args, "payload") THEN call.args.payload
                                   ELSE EmptyObject]

\* C12 (amended): the POST target of invoke is the caller's endpoint when a non-empty
\* one is given, otherwise (endpoint omitted or the empty string)
\* <base URL>/functions/v1/<name>; the body is the JSON encoding of payload, {} when
\* payload is omitted.
C12_Target ==
    InvokeIssued =>
        /\ Len(call.requests) = 1
        /\ Posted.url = IF Has(call.args, "endpoint") /\ call.args.endpoint # <<>>
                        THEN call.args.endpoint
                        ELSE <<SupabaseUrl, "/functions/v1/">> \o call.args.name
        /\ Posted.body = [json |-> IF Has(call.args, "payload") THEN call.args.payload
                                   ELSE EmptyObject]

C12_Witness ==
    /\ InvokeIssued /\ Done
    /\ call.args = [name |-> <<"hello">>, payload |-> [x |-> 1],
                    endpoint |-> <<"https://example.test/custom">>]
    /\ Posted.url = <<"https://example.test/custom">>
    /\ Posted.body = [json |-> [x |-> 1]]

Discovered == Done /\ server = "serverless" /\ call.name = "discover"

\* C13: discover against a supabase/functions directory that does not exist returns
\* a non-error envelope with {functions: [], count: 0}.
C13_Emptiness ==
    (Discovered /\ ~dir.exists) =>
        /\ ~IsError(call.envelope)
        /\ Len(Blocks) = 1
        /\ Payload = [functions |-> <<>>, count |-> 0]

C13_Witness ==
    /\ Discovered /\ dir = NoDirectory
    /\ call.envelope = SuccessEnvelope([json |-> [functions |-> <<>>, count |-> 0]])

\* The function that discover must report for a directory entry.
Reported(name) ==
    IF Truthy(SupabaseUrl)
    THEN [name |-> name, service |-> "supabase", path |-> <<"supabase/functions/">> \o name,
          endpoint |-> <<SupabaseUrl, "/functions/v1/">> \o name]
    ELSE [name |-> name, service |-> "supabase", path |-> <<"supabase/functions/">> \o name]

\* The entries that are directories and whose name does not start with "_", in order.
Deployed(entries) == SelectSeq(entries, LAMBDA e : e.kind = "dir" /\ e.name[1] # "_")

\* What discover must return for these entries.
Listing(entries) ==
    [functions |-> [i \in 1..Len(Deployed(entries)) |-> Reported(Deployed(entries)[i].name)],
     count |-> Len(Deployed(entries))]

RECURSIVE UntilFailure(_)
\* The entries listed before the first one whose stat() fails.
UntilFailure(entries) ==
    IF entries = <<>> \/ Head(entries).kind = "broken" THEN <<>>
    ELSE <<Head(entries)>> \o UntilFailure(Tail(entries))

DefaultOpenAI == "gpt-5.2-pro-2025-12-11"
DefaultGemini == "gemini-3-pro-preview"

\* The call has arguments and leaves the optional `field` out.
Omits(field) == server = "multimodel" /\ HasArgs(call.args) /\ ~Has(call.args, field)

\* Every request of the call to `provider` names `model`.
Asks(provider, model) ==
    \A i \in 1..Len(call.requests) :
        call.requests[i].provider = provider => call.requests[i].body.model = model

\* The model id that the OpenAI reply reports, `model` when it reports none.
ReportedModel(model) ==
    IF "model" \in DOMAIN call.replies["openai"].body THEN call.replies["openai"].body.model
    ELSE model

\* C15 as stated: when the model argument is omitted, query_openai, query_gemini and
\* the two branches of parallel_query send the provider's default model id upstream,
\* and the model field of the successful result equals that default.
C15_Original ==
    /\ (call.name = "query_openai" /\ Omits("model")) =>
          /\ Asks("openai", DefaultOpenAI)
          /\ (Done /\ ~IsError(call.envelope)) => Payload.model = DefaultOpenAI
    /\ (call.name = "query_gemini" /\ Omits("model")) =>
          /\ Asks("gemini", DefaultGemini)
          /\ (Done /\ ~IsError(call.envelope)) => Payload.model = DefaultGemini
    /\ (call.name = "parallel_query" /\ Omits("openai_model")) =>
          /\ Asks("openai", DefaultOpenAI)
          /\ (Done /\ call.oa.status = "fulfilled") => Payload.openai.model = DefaultOpenAI
    /\ (call.name = "parallel_query" /\ Omits("gemini_model")) =>
          /\ Asks("gemini", DefaultGemini)
          /\ (Done /\ call.gm.status = "fulfilled") => Payload.gemini.model = DefaultGemini

\* C15 (amended): when the model argument is omitted, query_openai, query_gemini and
\* the two branches of parallel_query send the provider's default model id upstream.
\* The model field of a successful Gemini result is that default; the model field of
\* a successful OpenAI result is the model id that the OpenAI reply reports, and the
\* default when the reply reports none.
C15_Defaults ==
    /\ (call.name = "query_openai" /\ Omits("model")) =>
          /\ Asks("openai", DefaultOpenAI)
          /\ (Done /\ ~IsError(call.envelope)) => Payload.model = ReportedModel(DefaultOpenAI)
    /\ (call.name = "query_gemini" /\ Omits("model")) =>
          /\ Asks("gemini", DefaultGemini)
          /\ (Done /\ ~IsError(call.envelope)) => Payload.model = DefaultGemini
    /\ (call.name = "parallel_query" /\ Omits("openai_model")) =>
          /\ Asks("openai", DefaultOpenAI)
          /\ (Done /\ call.oa.status = "fulfilled") =>
                Payload.openai.model = ReportedModel(DefaultOpenAI)
    /\ (call.name = "parallel_query" /\ Omits("gemini_model")) =>
          /\ Asks("gemini", DefaultGemini)
          /\ (Done /\ call.gm.status = "fulfilled") => Payload.gemini.model = DefaultGemini

C15_Witness ==
    /\ Done /\ server = "multimodel" /\ call.name = "query_openai"
    /\ call.args = [prompt |-> "2+2?"]
    /\ ~IsError(call.envelope)
    /\ Len(call.requests) = 1
    /\ call.requests[1].body.model = "gpt-5.2-pro-2025-12-11"
    /\ Payload.model = "gpt-5.2-pro-2025-12-11" /\ Payload.content = <<"4", ".">>

\* The caller supplies a model in `field`.
Supplies(field) == server = "multimodel" /\ HasArgs(call.args) /\ Has(call.args, field)

\* The provider rejected the request of the call.
RejectedBy(provider) ==
    /\ Answered(provider)
    /\ "ok" \in DOMAIN call.replies[provider]
    /\ ~call.replies[provider].ok

\* C16: a caller-supplied model, in the provider's available list or not, is handled
\* the same way in every handler (query_openai, query_gemini, both branches of
\* parallel_query): it is sent upstream unchanged, never replaced by the default or
\* by a third value, and the provider's rejection surfaces as the error.
C16_ModelSentUnchanged ==
    /\ (call.name \in {"query_openai", "query_gemini"} /\ Supplies("model")) =>
          /\ Asks("openai", call.args.model) /\ Asks("gemini", call.args.model)
          /\ \A p \in {"openai", "gemini"} :
                (Done /\ RejectedBy(p)) => call.envelope = ErrorShape(call.replies[p].message)
    /\ (call.name = "parallel_query" /\ Supplies("openai_model")) =>
          /\ Asks("openai", call.args.openai_model)
          /\ (Done /\ RejectedBy("openai")) =>
                Payload.openai = [error |-> call.replies["openai"].message]
    /\ (call.name = "parallel_query" /\ Supplies("gemini_model")) =>
          /\ Asks("gemini", call.args.gemini_model)
          /\ (Done /\ RejectedBy("gemini")) =>
                Payload.gemini = [error |-> call.replies["gemini"].message]

C16_Witness ==
    /\ Done /\ call.name = "parallel_query"
    /\ Supplies("openai_model") /\ Supplies("gemini_model")
    /\ call.args.openai_model = "gpt-4o" /\ call.args.gemini_model = "gemini-1.5-pro"
    /\ Len(call.requests) = 2
    /\ call.requests[1].body.model = "gpt-4o" /\ call.requests[2].body.model = "gemini-1.5-pro"
    /\ Payload.openai = [error |-> <<"404 The model does not exist">>]
    /\ Has(Payload.gemini, "model") /\ Payload.gemini.model = "gemini-1.5-pro"

\* The credential variables of the two servers and the values they hold when set.
CredentialVariables ==
    {"OPENAI_API_KEY", "GEMINI_API_KEY", "VOYAGE_API_KEY",
     "SUPABASE_SERVICE_ROLE_KEY", "SUPABASE_ANON_KEY", "EXPO_PUBLIC_SUPABASE_ANON_KEY"}
Credentials == { SecretOf[v] : v \in CredentialVariables }

\* The properties of a reply, by the kind of their value: a text (fragments), a
\* string, an object, a list of objects.  The other properties are numbers or are
\* copied from the upstream reply (usage, embedding, result, status, count).
TextProperties == {"error", "content", "name", "path", "endpoint", "function"}
StringProperties == {"model", "service"}
ObjectProperties == {"openai", "gemini"}
ListProperties == {"functions"}

RECURSIVE Mentions(_, _)
\* The string s occurs in a text or string property of the object, at any depth.
Mentions(object, s) ==
    \E k \in DOMAIN object :
        IF k \in TextProperties THEN Includes(object[k], s)
        ELSE IF k \in StringProperties THEN object[k] = s
        ELSE IF k \in ObjectProperties THEN Mentions(object[k], s)
        ELSE IF k \in ListProperties THEN \E i \in 1..Len(object[k]) : Mentions(object[k][i], s)
        ELSE FALSE

\* The process holds the credential s: in process.env or in a memoized client.
Holds(s) ==
    \/ \E v \in DOMAIN env : env[v] = s
    \/ openaiClient # Null /\ openaiClient.apiKey = s
    \/ geminiClient # Null /\ geminiClient.apiKey = s

\* C17: a resolved credential value never appears in a tool response: whichever
\* credentials the process holds and sends upstream, the envelope of every call
\* (success or error) is made of the arguments, the upstream reply and fixed text
\* only, so that runs that differ in the credential values alone return the same
\* envelopes.
C17_NoCredentialInResponse ==
    Done => /\ Len(Blocks) = 1
            /\ ParsesAsJSON(Blocks[1].text)
            /\ \A s \in Credentials : ~Mentions(Payload, s)

C17_Witness ==
    /\ Done /\ call.name = "query_openai" /\ Holds("sk-openai")
    /\ Len(call.requests) = 1
    /\ call.requests[1].authorization = <<"Bearer ", "sk-openai">>
    /\ "openai" \in DOMAIN call.replies
    /\ call.envelope = ErrorShape(<<"Responses API error: ", "500">>)
    /\ call.replies["openai"].status = 500

\* The call ended with the "<VARIABLE> not set" error of getApiKey.
EndedNotSet(var) == Done /\ server = "multimodel" /\ call.envelope = ErrorShape(<<var, " not set">>)

\* C18: credential resolution in the multimodel server tries the provider's
\* environment variable, then the remote secret store (Supabase Vault), and fails
\* with "<VARIABLE> not set" only after the store was queried as well: no call ends
\* with that error without a request to the store.
C18_VaultQueriedBeforeNotSet ==
    \A var \in MultimodelEnv : EndedNotSet(var) => HasRequest("vault")

\* invoke received an HTTP reply (of any status) to its POST.
InvokeReplied ==
    /\ Done /\ server = "serverless" /\ call.name = "invoke"
    /\ Answered("supabase") /\ ~call.replies["supabase"].failed
InvokeReply == call.replies["supabase"]

\* The envelope {function, service: "supabase", result, status} of the reply: result is
\* the parsed body when the content-type contains application/json, the text otherwise.
InvokeEnvelopeOf(reply) ==
    SuccessEnvelope([json |-> [function |-> call.args.name,
                               service |-> "supabase",
                               result |-> IF IsJsonContentType(reply) THEN reply.body
                                          ELSE reply.body.raw,
                               status |-> reply.status]])

\* C19 as stated: for every upstream reply to invoke, whatever its HTTP status, the
\* call returns the non-error envelope {function, service: "supabase", result, status}.
C19_Original ==
    InvokeReplied => call.envelope = InvokeEnvelopeOf(InvokeReply)

\* C19 (amended): for every upstream reply to invoke, whatever its HTTP status, whose
\* body is JSON when its content-type contains application/json, the call returns the
\* non-error envelope {function, service: "supabase", result, status}; a reply that
\* announces JSON and carries a body that is not JSON ends in the error envelope with
\* the parser's message.
C19_AnyStatus ==
    InvokeReplied =>
        IF IsJsonContentType(InvokeReply) /\ ~InvokeReply.json
        THEN call.envelope = ErrorShape(SyntaxErrorMessage)
        ELSE call.envelope = InvokeEnvelopeOf(InvokeReply)

C19_Witness ==
    /\ InvokeReplied
    /\ InvokeReply.status = 404
    /\ ~IsError(call.envelope)
    /\ Payload.status = 404 /\ Payload.result = [error |-> "Function not found"]

\* The --dry-run/--execute flags of a command line, in order.
ModeFlags(args) == SelectSeq(args, LAMBDA a : a.flag \in {"--dry-run", "--execute"})
\* --execute is the last of the --dry-run/--execute flags given.
ExecuteIsLast(args) ==
    LET m == ModeFlags(args) IN m # <<>> /\ m[Len(m)].flag = "--execute"
\* --scan is given.
ScanGiven(args) == \E i \in 1..Len(args) : args[i].flag = "--scan"
\* The script is past its argument parsing and has work to do.
Working == phase \in {"validate", "scan", "ephemeral", "sessions", "history", "auxiliary", "summary"}

\* C20: claude-cleanse is dry-run by default: unless --execute is the last of the
\* --dry-run/--execute flags given, DRY_RUN is true and no step of a run, in any mode
\* and with any --keep-days/--keep-history, creates, modifies or deletes anything
\* under CLAUDE_DIR; a run with --scan changes nothing even with --execute.
C20_DryRunByDefault ==
    [][ /\ (Working' => (opt'.DRY_RUN <=> ~ExecuteIsLast(argv)))
        /\ (~ExecuteIsLast(argv) \/ ScanGiven(argv)) => fs' = fs ]_vars

C20_Witness ==
    /\ phase = "exit 0"
    /\ argv = <<Flag("--execute"), Flag("--verbose"), Flag("--dry-run")>>
    /\ opt.DRY_RUN
    /\ cat_files["cache"] = 1 /\ cat_files["sessions"] > 0 /\ cat_files["history"] > 0
    /\ fs = Home(Now - 40, 600, TRUE)

\* The script has ended.
Ended == phase \in {"exit 0", "exit 1"}
\* An --aggressive run that executes: --aggressive is given, --execute is the last of
\* the --dry-run/--execute flags, and the other options are --keep-days,
\* --keep-history and --verbose, in any order.
AggressiveExecute ==
    /\ ExecuteIsLast(argv)
    /\ \E i \in 1..Len(argv) : argv[i].flag = "--aggressive"
    /\ \A i \in 1..Len(argv) :
          argv[i].flag \in {"--aggressive", "--execute", "--dry-run", "--keep-days",
                            "--keep-history", "--verbose"}
\* No session file or session directory under projects/, no history.jsonl and no
\* entry under plans/, todos/ or tasks/.
NothingLeft(f) ==
    /\ \A project \in ProjectDirs(f) :
          /\ SessionFiles(f, project) = {}
          /\ \A q \in Children(f, project) : ~IsDir(f, q)
    /\ ~IsFile(f, << <<"history", ".jsonl">> >>)
    /\ \A d \in {<<"plans">>, <<"todos">>, <<"tasks">>} : Children(f, <<d>>) = {}

\* C21: claude-cleanse --aggressive --execute deletes all sessions, history, plans,
\* todos and tasks: when the run has ended nothing of them is left in CLAUDE_DIR,
\* whatever the modification times and the order of the options.
C21_AggressiveDeletesAll ==
    (Ended /\ AggressiveExecute) => NothingLeft(fs)

\* A step assigns the memoized client: from null, in the synchronous part of a call
\* of one of `tools`, to a client that wraps the key that `var` holds.
AssignedOnce(before, after, var, tools) ==
    /\ before # Null => after = before
    /\ (before = Null /\ after # Null) =>
          /\ Truthy(env[var]) /\ after = [apiKey |-> env[var]]
          /\ call'.name \in tools /\ call'.pc = "pending"

ResponsesSubset == {"gpt-5.2-pro-2025-12-11"}
\* The effective OpenAI model of the call: the caller's value or the default.
EffectiveOpenAIModel ==
    LET field == IF call.name = "parallel_query" THEN "openai_model" ELSE "model"
    IN  IF Has(call.args, field) THEN call.args[field] ELSE DefaultOpenAI
\* The requests the call has issued to OpenAI.
OpenAIRequests == SelectSeq(call.requests, LAMBDA r : r.provider = "openai")

\* C23: the OpenAI calling convention is chosen from the effective model id alone,
\* before any request is sent: query_openai and the OpenAI branch of parallel_query
\* issue at most one OpenAI request per call, to the Responses API if and only if the
\* effective model is in the responsesApi subset and to chat completions for every
\* other value, in the allow-list or not; no reply makes the call try the other one.
C23_ConventionByModel ==
    (server = "multimodel" /\ call.name \in {"query_openai", "parallel_query"}
       /\ HasArgs(call.args)) =>
        /\ Len(OpenAIRequests) <= 1
        /\ \A i \in 1..Len(OpenAIRequests) :
              /\ OpenAIRequests[i].api \in {"responses", "chat"}
              /\ OpenAIRequests[i].api = "responses" <=> EffectiveOpenAIModel \in ResponsesSubset
              /\ OpenAIRequests[i].body.model = EffectiveOpenAIModel

C23_Witness ==
    /\ Done /\ call.name = "parallel_query" /\ HasArgs(call.args)
    /\ Has(call.args, "openai_model") /\ call.args.openai_model = "gpt-4o"
    /\ Len(OpenAIRequests) = 1 /\ OpenAIRequests[1].api = "chat"
    /\ Answered("openai") /\ ~IsError(call.envelope)

\* The envelope of a handler body that resolved to a value or threw.
EnvelopeOf(result) ==
    IF result.ok THEN SuccessEnvelope(JSONstringify(result.value)) ELSE ErrorEnvelope(result.message)
\* What a provider call comes to in a process that serves nothing else: the key is
\* resolved from the environment, and the reply (when a request goes out) decides.
AloneResult(provider, replies, name, result(_)) ==
    LET k == getApiKey(provider)
    IN  IF ~k.ok THEN Throw(k.message)
        ELSE IF name \notin DOMAIN replies THEN Throw(<<"no reply">>)
        ELSE result(replies[name])
\* The envelope that the call c returns when it is the only call of its process, with
\* the arguments, the environment and the upstream replies of c.
Alone(c) ==
    IF c.name \notin CaseLabels("multimodel") THEN ErrorEnvelope(<<"Unknown tool: ", c.name>>)
    ELSE IF c.name = "query_openai"
    THEN EnvelopeOf(AloneResult("openai", c.replies, "openai",
             LAMBDA reply : IF UsesResponsesApi(OpenAIModel(c.args))
                            THEN ResponsesResult(reply, OpenAIModel(c.args))
                            ELSE ChatResult(reply)))
    ELSE IF c.name = "query_gemini"
    THEN EnvelopeOf(AloneResult("google", c.replies, "gemini",
             LAMBDA reply : GeminiResult(reply, GeminiModel(c.args))))
    ELSE IF c.name = "embed_voyage"
    THEN EnvelopeOf(AloneResult("voyage", c.replies, "voyage", LAMBDA reply : VoyageResult(reply)))
    ELSE LET oa == AloneResult("openai", c.replies, "openai",
                       LAMBDA reply : IF UsesResponsesApi(ParallelOpenAIModel(c.args))
                                      THEN ResponsesResult(reply, ParallelOpenAIModel(c.args))
                                      ELSE ParallelChatResult(reply, ParallelOpenAIModel(c.args)))
             gm == AloneResult("google", c.replies, "gemini",
                       LAMBDA reply : GeminiResult(reply, ParallelGeminiModel(c.args)))
         IN  SuccessEnvelope(JSONstringify(<< Prop("openai", SettledField(SettleBranch(oa))),
                                              Prop("gemini", SettledField(SettleBranch(gm))) >>))

\* C24: with two calls in flight in one multimodel process, for every interleaving of
\* their steps and completions, the envelope of each call is the one the call returns
\* when run alone with the same arguments, environment and upstream replies: nothing
\* that the other call did, the client it memoized included, changes the result.
C24_AsIfAlone ==
    /\ Done => call.envelope = Alone(call)
    /\ parked.pc = "done" => parked.envelope = Alone(parked)

C24_Witness ==
    /\ Done /\ call.name = "query_gemini" /\ Len(call.requests) = 1
    /\ Has(call.args, "model") /\ ~IsError(call.envelope) /\ Payload.model = "gemini-1.5-pro"
    /\ parked.pc = "pending" /\ parked.name = "query_gemini" /\ Len(parked.requests) = 1
    /\ ~Has(parked.args, "model")

\* The providers a tool may contact.
ProvidersOf(name) ==
    CASE name = "query_openai"   -> {"openai"}
      [] name = "query_gemini"   -> {"gemini"}
      [] name = "embed_voyage"   -> {"voyage"}
      [] name = "parallel_query" -> {"openai", "gemini"}
      [] name = "invoke"         -> {"supabase"}
      [] OTHER                   -> {}
\* The tools whose call may create the OpenAI client, the Gemini client.
MayCreateOpenAI(name) == server = "multimodel" /\ name \in {"query_openai", "parallel_query"}
MayCreateGemini(name) == server = "multimodel" /\ name \in {"query_gemini", "parallel_query"}
\* The URLs invoke may post to: the caller's endpoint, the computed URL.
TargetsOf(args) ==
    (IF Has(args, "endpoint") THEN {args.endpoint} ELSE {}) \cup {FunctionUrl(args.name)}
\* The requests of the call go to the providers of its tool only; a name that is not a
\* case label of the server, and discover, send nothing; invoke posts once, to the
\* caller's endpoint or to the computed URL.
ContactsOwnProviderOnly ==
    /\ \A i \in 1..Len(call.requests) :
          /\ InCatalog
          /\ call.requests[i].provider \in ProvidersOf(call.name)
    /\ (call.name = "invoke" /\ call.requests # <<>>) =>
          /\ Len(call.requests) = 1
          /\ call.requests[1].url \in TargetsOf(call.args)

\* C25: the dispatcher routes a request to one handler and does nothing else: an
\* unknown tool name sends no upstream request and creates no client, query_openai
\* contacts only OpenAI, query_gemini only Gemini, embed_voyage only Voyage, discover
\* sends nothing, invoke posts only to its target URL; and a step of a call creates
\* only the client of its own provider.
C25_OneHandlerNoOtherEffect ==
    /\ ContactsOwnProviderOnly
    /\ [][ /\ ContactsOwnProviderOnly'
          /\ (openaiClient' # openaiClient => MayCreateOpenAI(call'.name))
          /\ (geminiClient' # geminiClient => MayCreateGemini(call'.name)) ]_vars

C25_Witness ==
    /\ Done /\ server = "multimodel" /\ call.name = "delete_everything"
    /\ \A v \in MultimodelEnv : Truthy(env[v])
    /\ openaiClient = Null /\ geminiClient = Null
    /\ call.requests = <<>> /\ IsError(call.envelope)

\* The arguments of the single-provider tool for a branch of parallel_query: the same
\* prompt and system_prompt, and the branch's model as `model`.
SingleArgs(args, field) ==
    [k \in (DOMAIN args \ {"openai_model", "gemini_model"})
            \cup (IF Has(args, field) THEN {"model"} ELSE {}) |->
        IF k = "model" THEN args[field] ELSE args[k]]
\* The body of the OpenAI request that query_openai sends for the arguments.
QueryOpenAIBody(args) ==
    IF UsesResponsesApi(OpenAIModel(args))
    THEN ResponsesRequest(args, OpenAIModel(args), "").body
    ELSE ChatRequest([apiKey |-> ""], args, OpenAIModel(args)).body
\* What query_openai and query_gemini make of the reply.
QueryOpenAIResult(args, reply) ==
    IF UsesResponsesApi(OpenAIModel(args)) THEN ResponsesResult(reply, OpenAIModel(args))
    ELSE ChatResult(reply)
RequestsOf(provider) == SelectSeq(call.requests, LAMBDA r : r.provider = provider)

\* C26: each branch of parallel_query is the same handler call as the single-provider
\* tool: for the same prompt, system_prompt and model and the same upstream reply, the
\* OpenAI branch sends the request query_openai sends and reports the payload
\* query_openai reports, and the Gemini branch does as query_gemini does.
C26_BranchIsHandlerCall ==
    (server = "multimodel" /\ call.name = "parallel_query" /\ HasArgs(call.args)) =>
        LET oa == SingleArgs(call.args, "openai_model")
            gm == SingleArgs(call.args, "gemini_model")
        IN  /\ \A i \in 1..Len(OpenAIRequests) : OpenAIRequests[i].body = QueryOpenAIBody(oa)
            /\ \A i \in 1..Len(RequestsOf("gemini")) :
                  RequestsOf("gemini")[i].body = GeminiRequest([apiKey |-> ""], gm, GeminiModel(gm)).body
            /\ (Done /\ Answered("openai") /\ QueryOpenAIResult(oa, call.replies["openai"]).ok) =>
                  Payload.openai = ObjectOf(QueryOpenAIResult(oa, call.replies["openai"]).value)
            /\ (Done /\ Answered("gemini") /\ call.replies["gemini"].ok) =>
                  Payload.gemini =
                      ObjectOf(GeminiResult(call.replies["gemini"], GeminiModel(gm)).value)

\* The step is the synchronous part of a call with arguments.
Starts(c, d) == server = "multimodel" /\ c.pc = "idle" /\ d.pc # "idle" /\ HasArgs(d.args)
\* The call (a branch of it, for parallel_query) failed with "<var> not set".
NotSetIn(c, var, branch) ==
    IF c.name = "parallel_query"
    THEN c[branch] = Rejected(<<var, " not set">>)
    ELSE c.thrown = [message |-> <<var, " not set">>]
\* A step in which the resolution of `var` fails leaves the client as it was, and a
\* call of a tool of the provider that starts while `var` is set sends its request.
NoTraceOfFailure(var, client, clientAfter, provider, branch, tools) ==
    /\ (Starts(call, call') /\ NotSetIn(call', var, branch)) => clientAfter = client
    /\ (Starts(call, call') /\ call'.name \in tools /\ Truthy(env[var])) =>
          /\ ~NotSetIn(call', var, branch)
          /\ \E i \in 1..Len(call'.requests) : call'.requests[i].provider = provider

\* C27: a failed credential resolution leaves no state behind: when a provider call
\* fails with "<VARIABLE> not set" the memoized client is left as it was (null, for a
\* call that goes through the client), and once the variable is set the next call to
\* that provider resolves it and sends the upstream request instead of repeating the
\* error.
C27_FailureLeavesNoState ==
    [][ /\ NoTraceOfFailure("OPENAI_API_KEY", openaiClient, openaiClient', "openai", "oa",
                            {"query_openai", "parallel_query"})
        /\ NoTraceOfFailure("GEMINI_API_KEY", geminiClient, geminiClient', "gemini", "gm",
                            {"query_gemini", "parallel_query"}) ]_vars

C27_Witness ==
    /\ Done /\ call.name = "query_openai" /\ HasArgs(call.args)
    /\ Has(call.args, "model") /\ call.args.model = "gpt-4o"
    /\ call.envelope = ErrorShape(<<"OPENAI_API_KEY", " not set">>)
    /\ env["OPENAI_API_KEY"] = "" /\ openaiClient = Null /\ call.requests = <<>>

\* A variable of process.env is set: it is there and it is not empty.
IsSet(var) == env[var] # Unset /\ env[var] # ""
\* The value of the first variable of the list that is set.
FirstSet(variables) ==
    LET set == SelectSeq(variables, IsSet) IN env[set[1]]
KeyVariables == <<"SUPABASE_SERVICE_ROLE_KEY", "SUPABASE_ANON_KEY", "EXPO_PUBLIC_SUPABASE_ANON_KEY">>
UrlVariables == <<"SUPABASE_URL", "EXPO_PUBLIC_SUPABASE_URL">>

\* C28: every POST of invoke carries Authorization: Bearer <key>, <key> being the
\* first set value among SUPABASE_SERVICE_ROLE_KEY, SUPABASE_ANON_KEY and
\* EXPO_PUBLIC_SUPABASE_ANON_KEY, whether the target is the caller's endpoint or the
\* computed one; the computed target starts with SUPABASE_URL if set, else with
\* EXPO_PUBLIC_SUPABASE_URL.
C28_BearerOfFirstKey ==
    InvokeIssued =>
        /\ \A i \in 1..Len(call.requests) :
              call.requests[i].authorization = <<"Bearer ", FirstSet(KeyVariables)>>
        /\ (~Has(call.args, "endpoint") \/ call.args.endpoint = <<>>) =>
              Posted.url = <<FirstSet(UrlVariables), "/functions/v1/">> \o call.args.name

C28_Witness ==
    /\ InvokeIssued /\ Done
    /\ env["SUPABASE_SERVICE_ROLE_KEY"] = "" /\ env["SUPABASE_ANON_KEY"] = "anon-jwt"
    /\ env["EXPO_PUBLIC_SUPABASE_ANON_KEY"] = "expo-anon-jwt"
    /\ Has(call.args, "endpoint") /\ call.args.endpoint = <<"https://example.test/custom">>
    /\ Posted.url = <<"https://example.test/custom">>
    /\ Posted.authorization = <<"Bearer ", "anon-jwt">>

\* None of the variables is set.
NoneSet(variables) == \A i \in 1..Len(variables) : ~IsSet(variables[i])
\* invoke is called with arguments.
InvokeCalled == server = "serverless" /\ call.name = "invoke" /\ HasArgs(call.args)

\* C29: invoke checks its configuration before it resolves the target: with no base
\* URL or no auth key set the call returns the error "Missing SUPABASE_URL or
\* SUPABASE_SERVICE_ROLE_KEY/SUPABASE_ANON_KEY" and sends nothing, also when the
\* caller gives an override endpoint, for which the base URL is not used.
C29_ConfigurationBeforeTarget ==
    (InvokeCalled /\ (NoneSet(UrlVariables) \/ NoneSet(KeyVariables))) =>
        /\ call.requests = <<>>
        /\ call.thrown = [message |-> <<"Missing SUPABASE_URL or SUPABASE_SERVICE_ROLE_KEY/SUPABASE_ANON_KEY">>]
        /\ IsError(call.envelope)

C29_Witness ==
    /\ InvokeCalled /\ Done
    /\ Has(call.args, "endpoint") /\ call.args.endpoint = <<"https://example.test/custom">>
    /\ NoneSet(UrlVariables) /\ env["SUPABASE_ANON_KEY"] = "anon-jwt"
    /\ call.requests = <<>>
    /\ call.envelope = ErrorShape(MissingMessage)

\* The entries the scan got through: none when readdir() fails, otherwise those
\* before the first entry whose stat() fails.
Scanned == IF dir.exists THEN UntilFailure(dir.entries) ELSE <<>>
\* The names of the functions in the reply, in order.
NamesReported == [i \in 1..Len(Payload.functions) |-> Payload.functions[i].name]
NamesOf(entries) == [i \in 1..Len(entries) |-> entries[i].name]

\* C30: discover never returns an error envelope: whatever fails during the scan (the
\* directory missing or unreadable, a stat failing part-way through), the scan ends
\* there and the call returns the functions collected up to that point, with count
\* equal to their number; this holds with or without an arguments object.
C30_DiscoverNeverFails ==
    Discovered =>
        /\ ~IsError(call.envelope) /\ call.thrown = NoError
        /\ DOMAIN Payload = {"functions", "count"}
        /\ NamesReported = NamesOf(Deployed(Scanned))
        /\ Payload.count = Len(Payload.functions)

C30_Witness ==
    /\ Discovered /\ call.args = UndefinedArgs
    /\ dir = Directory(<< [name |-> <<"stale-link">>, kind |-> "broken"],
                          [name |-> <<"hello">>, kind |-> "dir"] >>)
    /\ ~IsError(call.envelope)
    /\ Payload = [functions |-> <<>>, count |-> 0]

====
